---- MODULE Spec2Model ----
(***************************************************************************)
(* Atlas-GRAG: the graph upsert service (src/database/graph_db.py), the    *)
(* entity normaliser and knowledge extractor (src/ingestion/extractor.py)  *)
(* and the ingestion pipeline (src/ingestion/pipeline.py) with the vector  *)
(* store manager (src/database/vector_db.py).                              *)
(*                                                                         *)
(* Strings are sequences of one-character strings, so that trimming, case  *)
(* folding and the suffix patterns act on characters.                      *)
(***************************************************************************)
EXTENDS Integers, Sequences, FiniteSets, TLC

VARIABLES
    nodes,      \* graph store: the set of nodes
    edges,      \* graph store: the set of relationships
    ops,        \* number of manager calls made so far (SpecGraph)
    lastOp,     \* the last manager call and what the store held before it
    query,      \* the last traversal call and the rows it returned (SpecTraverse)
    rawName,    \* the raw entity name given to normalize_entity_name (SpecNormalize)
    norm,       \* what normalize_entity_name returned for it, applied once and twice
    extraction, \* the last EntityExtractor.extract call: response, setting, result
    task,       \* per ingestion task: the position and locals of its ingest_text call
    docs,       \* vector store: the documents of the pipeline's collection, in add order
    calls,      \* number of ingest_text calls started so far
    last,       \* what the most recently returned ingest_text call was given and left
    merged,     \* the node and relationship keys whose merge has committed so far
    injected,   \* whether the pipeline was given its graph manager
    file,       \* the ingest_file call: its lines, its position and its result
    rawResponse,        \* the text given to parse_from_response (SpecParse)
    reasoningResponse,  \* the ReasoningResponse that parse_from_response made of it
    reasoned,           \* the last ReasoningChain.reason call and what it answered (SpecReason)
    flow,               \* one run of the query flow of main(): what it did and showed
    messages,           \* st.session_state.messages, the chat history
    vector              \* the vector manager: its collection cache and the client behind it

pipeVars == <<task, docs, calls, last, merged, injected, file, vector>>
chainVars == <<rawResponse, reasoningResponse, reasoned, flow, messages>>
vars == <<nodes, edges, ops, lastOp, query, rawName, norm, extraction, pipeVars, chainVars>>

None == "None"

(***************************************************************************)
(* Bounds of the model.                                                    *)
(***************************************************************************)
MaxOps == 4
MaxHops == 3
MaxTokens == 4
MaxItems == 2

(***************************************************************************)
(* Small input domains.                                                    *)
(***************************************************************************)
Entities == {[label |-> "Company", name |-> <<"a">>],
             [label |-> "Product", name |-> <<"b">>]}
RelTypes == {"MAKES", "USES"}
PropVals == {None, "v"}

(***************************************************************************)
(* The graph store.  A node is the label and the match property `name` it  *)
(* was created with, a copy number that tells apart nodes created with the *)
(* same label and name, and the properties beyond the key that ON CREATE   *)
(* SET and ON MATCH SET write.  A relationship joins two node identities.  *)
(***************************************************************************)
Ident(n) == [label |-> n.label, name |-> n.name, copy |-> n.copy]

Matching(ns, label, name) == {n \in ns : n.label = label /\ n.name = name}

EdgesOf(es, a, b, type) == {e \in es : e.src = a /\ e.dst = b /\ e.type = type}

\* CREATE (n:label {name}) in place of MERGE: always a new node.
create_node(ns, label, name, on_create, on_match) ==
    ns \cup {[label |-> label, name |-> name,
              copy |-> Cardinality(Matching(ns, label, name)) + 1,
              created |-> on_create, matched |-> None]}

\* MERGE (n:label {name: $name}) [ON CREATE SET ...] [ON MATCH SET ...]
merge_node(ns, label, name, on_create, on_match) ==
    LET found == Matching(ns, label, name) IN
    IF found = {}
    THEN ns \cup {[label |-> label, name |-> name, copy |-> 1,
                   created |-> on_create, matched |-> None]}
    ELSE (ns \ found) \cup
         {[n EXCEPT !.matched = IF on_match = None THEN @ ELSE on_match] : n \in found}

\* The MERGE (a)-[r:type]->(b) clause over the rows (a, b), then SET r.k = v.
MergeEdges(es, as, bs, type, rel_props) ==
    LET rows == as \X bs
        fresh == {[src |-> r[1], dst |-> r[2], type |-> type, copy |-> 1, props |-> None] :
                    r \in {q \in rows : EdgesOf(es, q[1], q[2], type) = {}}}
        all == es \cup fresh
        hit(e) == e.type = type /\ <<e.src, e.dst>> \in rows
    IN {IF hit(e) /\ rel_props # None THEN [e EXCEPT !.props = rel_props] ELSE e : e \in all}

\* MATCH (a) MATCH (b) MERGE (a)-[r]->(b): the endpoints are looked up, not merged.
match_relationship(ns, es, from_label, from_name, to_label, to_name, rel_type, rel_props) ==
    LET as == {Ident(n) : n \in Matching(ns, from_label, from_name)}
        bs == {Ident(n) : n \in Matching(ns, to_label, to_name)}
    IN [nodes |-> ns, edges |-> MergeEdges(es, as, bs, rel_type, rel_props)]

\* MERGE (a:from_label {...}) MERGE (b:to_label {...}) MERGE (a)-[r:rel_type]->(b)
merge_relationship(ns, es, from_label, from_name, to_label, to_name, rel_type, rel_props) ==
    LET ns1 == merge_node(ns, from_label, from_name, None, None)
        ns2 == merge_node(ns1, to_label, to_name, None, None)
        as == {Ident(n) : n \in Matching(ns2, from_label, from_name)}
        bs == {Ident(n) : n \in Matching(ns2, to_label, to_name)}
    IN [nodes |-> ns2, edges |-> MergeEdges(es, as, bs, rel_type, rel_props)]

NodeKey(n) == <<n.label, n.name>>
EdgeKey(e) == <<e.src, e.dst, e.type>>

(***************************************************************************)
(* SpecGraph: any sequence of merge_node and merge_relationship calls on   *)
(* one manager.  A call whose session.run raises leaves the store as it    *)
(* was (an auto-commit transaction that does not commit).                  *)
(***************************************************************************)
NoOp == [kind |-> "none", key |-> <<>>, present |-> FALSE,
         fromPresent |-> FALSE, toPresent |-> FALSE, nBefore |-> 0, eBefore |-> 0]

NoQuery == [kind |-> "none"]

\* What the specifications other than SpecGraph keep of its variables.
NoGraphCalls == ops = 0 /\ lastOp = NoOp
\* What the specifications other than SpecTraverse keep of its variables.
NoTraversal == query = NoQuery
\* What the specifications other than SpecNormalize keep of its variables.
NotNormalized == [done |-> FALSE, once |-> <<>>, twice |-> <<>>]
NoNormalize == rawName = <<>> /\ norm = NotNormalized
\* What the specifications other than SpecExtract keep of its variables.
NotExtracted == [done |-> FALSE]
NoExtract == extraction = NotExtracted

\* IngestionResult(): the defaults of the dataclass.
IngestionResult ==
    [success |-> TRUE, nodes_created |-> 0, relationships_created |-> 0,
     documents_added |-> 0, errors |-> <<>>]

\* The ingestion tasks that may run at once (ingest_file gathers a batch of them).
Tasks == {"t1", "t2"}

\* The call before was given another text or other triples, or there was none.
NoFirst == [stored |-> FALSE, nodes |-> 0, edges |-> 0]

\* No ingest_text call has returned yet.
NoCall == [done |-> FALSE, text |-> <<>>, triples |-> <<>>, stored |-> FALSE,
           nodes |-> 0, edges |-> 0, documents |-> 0, repeat |-> FALSE, first |-> NoFirst]

\* metadata = metadata or {}: a call that is given none.
NoMetadata == [file |-> None, line_number |-> None]

\* A task that has not called ingest_text.
IdleTask == [pc |-> "idle", text |-> <<>>, metadata |-> NoMetadata, triples |-> <<>>, i |-> 0,
             error |-> None, result |-> IngestionResult, attempts |-> <<>>, adds |-> <<>>,
             constructed |-> FALSE, closes |-> 0, used_closed |-> FALSE]

NoMerges == [nodes |-> {}, edges |-> {}]

\* ingest_file has not been called.
NoFile == [pc |-> "idle", readable |-> TRUE, lines |-> <<>>, kept |-> <<>>, batch_size |-> 0,
           i |-> 0, j |-> 0, batch_results |-> <<>>, result |-> IngestionResult,
           sums |-> [lines |-> 0, exceptions |-> 0, failures |-> 0, texts |-> <<>>,
                     nodes_created |-> 0,
                     relationships_created |-> 0, documents_added |-> 0, errors |-> 0]]

\* parse_from_response, or reason, has not been called.
NotParsed == [done |-> FALSE]

\* No question has been put to the application and no component has been built.
NoFlow == [pc |-> "idle", retriever |-> "unset", chain |-> "unset"]

\* What the specifications of the pipeline and the stores keep of the chain's variables.
NoChain ==
    /\ rawResponse = [str |-> TRUE, v |-> <<>>]
    /\ reasoningResponse = NotParsed
    /\ reasoned = NotParsed
    /\ flow = NoFlow
    /\ messages = <<>>

\* The collections of the vector store; the pipeline keeps its documents in the first.
CollectionName == "supply_chain"
CollectionNames == {CollectionName, "scratch"}

\* VectorDatabaseManager(): an empty cache (self._collections = {}), here 0 for a
\* name without a handle, in front of a client that holds no collection yet.
\* A handle is the number of the collection it refers to.
NoVector ==
    [collections |-> [n \in CollectionNames |-> 0],
     client |-> [n \in CollectionNames |-> 0],
     created |-> 0,
     ops |-> 0,
     called |-> [n \in CollectionNames |-> 0],
     fetched |-> [n \in CollectionNames |-> 0],
     last |-> [op |-> "none", name |-> CollectionName, raised |-> FALSE, fetched |-> FALSE,
               before |-> [n \in CollectionNames |-> 0]]]

\* What the specifications other than Spec keep of its variables.
NoPipeline ==
    /\ task = [t \in Tasks |-> IdleTask]
    /\ docs = <<>>
    /\ calls = 0
    /\ last = NoCall
    /\ merged = NoMerges
    /\ injected = TRUE
    /\ file = NoFile
    /\ vector = NoVector

InitGraph ==
    /\ nodes = {}
    /\ edges = {}
    /\ ops = 0
    /\ lastOp = NoOp
    /\ NoTraversal
    /\ NoNormalize
    /\ NoExtract
    /\ NoPipeline
    /\ NoChain

MergeNode ==
    \E ent \in Entities, bookkeeping \in PropVals :
        /\ ops < MaxOps
        /\ ops' = ops + 1
        /\ nodes' = merge_node(nodes, ent.label, ent.name, bookkeeping, bookkeeping)
        /\ edges' = edges
        /\ UNCHANGED <<query, rawName, norm, extraction, pipeVars, chainVars>>
        /\ lastOp' = [kind |-> "node", key |-> <<ent>>,
                      present |-> Matching(nodes, ent.label, ent.name) # {},
                      fromPresent |-> FALSE, toPresent |-> FALSE,
                      nBefore |-> Cardinality(nodes), eBefore |-> Cardinality(edges)]

MergeRelationship ==
    \E from \in Entities, to \in Entities, rt \in RelTypes, rp \in PropVals :
        LET r == merge_relationship(nodes, edges, from.label, from.name,
                                    to.label, to.name, rt, rp) IN
        /\ ops < MaxOps
        /\ ops' = ops + 1
        /\ nodes' = r.nodes
        /\ edges' = r.edges
        /\ UNCHANGED <<query, rawName, norm, extraction, pipeVars, chainVars>>
        /\ lastOp' = [kind |-> "rel", key |-> <<from, to, rt>>,
                      fromPresent |-> Matching(nodes, from.label, from.name) # {},
                      toPresent |-> Matching(nodes, to.label, to.name) # {},
                      present |-> /\ Matching(nodes, from.label, from.name) # {}
                                  /\ Matching(nodes, to.label, to.name) # {}
                                  /\ \E e \in edges : /\ e.type = rt
                                                      /\ e.src.label = from.label
                                                      /\ e.src.name = from.name
                                                      /\ e.dst.label = to.label
                                                      /\ e.dst.name = to.name,
                      nBefore |-> Cardinality(nodes), eBefore |-> Cardinality(edges)]

\* session.run raises inside merge_node or merge_relationship: nothing is committed.
SessionRunRaises ==
    /\ ops < MaxOps
    /\ ops' = ops + 1
    /\ UNCHANGED <<nodes, edges, query, rawName, norm, extraction, pipeVars, chainVars>>
    /\ lastOp' = [NoOp EXCEPT !.kind = "raised",
                               !.nBefore = Cardinality(nodes), !.eBefore = Cardinality(edges)]

NextGraph == MergeNode \/ MergeRelationship \/ SessionRunRaises

SpecGraph == InitGraph /\ [][NextGraph]_vars

NodesWithKey(label, name) == Cardinality(Matching(nodes, label, name))

EdgesWithKey(from, to, type) ==
    Cardinality({e \in edges : /\ e.type = type
                               /\ e.src.label = from.label /\ e.src.name = from.name
                               /\ e.dst.label = to.label /\ e.dst.name = to.name})

\* C1: after any sequence of merge_node and merge_relationship calls the store
\* holds at most one node per (label, name) key and at most one relationship per
\* (from node, to node, type) key, and a merge whose key is already in the store
\* leaves the node count and the relationship count as they were.
C1_MergeIdempotent ==
    /\ \A ent \in Entities : NodesWithKey(ent.label, ent.name) <= 1
    /\ \A from \in Entities, to \in Entities, rt \in RelTypes : EdgesWithKey(from, to, rt) <= 1
    /\ (lastOp.kind \in {"node", "rel"} /\ lastOp.present) =>
           /\ Cardinality(nodes) = lastOp.nBefore
           /\ Cardinality(edges) = lastOp.eBefore

\* A relationship merge was repeated on a store that already held its key.
C1_Witness ==
    /\ lastOp.kind = "rel"
    /\ lastOp.present
    /\ ops >= 2
    /\ Cardinality(edges) >= 1

\* C9: merge_relationship merges both endpoint nodes before the relationship:
\* whatever the store held, after the call both endpoint nodes are present and
\* there is one relationship of the given type from the source to the target.
C9_RelationshipMergesEndpoints ==
    lastOp.kind = "rel" =>
        LET from == lastOp.key[1]
            to == lastOp.key[2]
            rt == lastOp.key[3]
        IN /\ NodesWithKey(from.label, from.name) = 1
           /\ NodesWithKey(to.label, to.name) = 1
           /\ EdgesWithKey(from, to, rt) = 1

\* merge_relationship ran on a store that lacked one of its endpoint nodes.
C9_Witness ==
    /\ lastOp.kind = "rel"
    /\ ~(lastOp.fromPresent /\ lastOp.toPresent)
    /\ lastOp.key[1] # lastOp.key[2]

(***************************************************************************)
(* Traversal.  A variable-length pattern (start)-[*1..n]-(x) matches every *)
(* path of 1..n relationships from start that uses no relationship twice,  *)
(* in either direction.  A path is the sequence of its steps, each step    *)
(* the relationship taken and the node reached.                            *)
(***************************************************************************)
PathLimit == 10

PathEnd(start, p) == IF p = <<>> THEN start ELSE p[Len(p)].node

StepsFrom(es, at, used) ==
    {[edge |-> e, node |-> IF e.src = at THEN e.dst ELSE e.src] :
        e \in {x \in es : (x.src = at \/ x.dst = at) /\ x \notin used}}

PathEdges(p) == {p[i].edge : i \in 1..Len(p)}

RECURSIVE PathsOfLength(_, _, _)
PathsOfLength(es, start, k) ==
    IF k = 0 THEN {<<>>}
    ELSE UNION {{Append(p, st) : st \in StepsFrom(es, PathEnd(start, p), PathEdges(p))} :
                    p \in PathsOfLength(es, start, k - 1)}

\* The order in which the store lists a set of rows is its own; the model
\* lets it be one enumeration or the reverse of it.
RECURSIVE Enumerate(_)
Enumerate(S) ==
    IF S = {} THEN <<>>
    ELSE LET x == CHOOSE y \in S : TRUE IN <<x>> \o Enumerate(S \ {x})

Reverse(s) == [i \in 1..Len(s) |-> s[Len(s) + 1 - i]]

Scan(S, scan) == IF scan = "forward" THEN Enumerate(S) ELSE Reverse(Enumerate(S))

RECURSIVE Concat(_)
\* groups[1] \o ... \o groups[n]
Concat(groups) == IF groups = <<>> THEN <<>> ELSE Head(groups) \o Concat(Tail(groups))

Take(s, n) == SubSeq(s, 1, IF Len(s) < n THEN Len(s) ELSE n)

\* MATCH (start:label {name}) MATCH path = (start)-[*1..max_hops]-(neighbor)
\* WHERE neighbor <> start
\* RETURN DISTINCT neighbor AS node, length(path) AS path_length ORDER BY path_length
find_neighbors(ns, es, label, name, max_hops, scan) ==
    LET starts == {Ident(n) : n \in Matching(ns, label, name)}
        rows(k) == UNION {{[node |-> PathEnd(s, p), path_length |-> k] :
                              p \in PathsOfLength(es, s, k)} : s \in starts}
        kept(k) == {r \in rows(k) : r.node \notin starts}
    IN Concat([k \in 1..max_hops |-> Scan(kept(k), scan)])

PathRow(start, p) ==
    [nodes |-> <<start>> \o [i \in 1..Len(p) |-> p[i].node],
     relationships |-> [i \in 1..Len(p) |-> p[i].edge.type],
     path_length |-> Len(p)]

\* All the rows of get_paths_between's MATCH, ordered by path_length.
MatchedPaths(ns, es, from, to, max_hops, scan) ==
    LET as == {Ident(n) : n \in Matching(ns, from.label, from.name)}
        bs == {Ident(n) : n \in Matching(ns, to.label, to.name)}
        found(k) == UNION {{<<a, p>> : p \in PathsOfLength(es, a, k)} : a \in as}
        joined(k) == {ap \in found(k) : PathEnd(ap[1], ap[2]) \in bs}
        group(k) == LET listed == Scan(joined(k), scan)
                    IN [i \in 1..Len(listed) |-> PathRow(listed[i][1], listed[i][2])]
    IN Concat([k \in 1..max_hops |-> group(k)])

\* The query without its LIMIT clause.
get_paths_between_unlimited(ns, es, from, to, max_hops, scan) ==
    MatchedPaths(ns, es, from, to, max_hops, scan)

\* MATCH path = (a:from)-[*1..max_hops]-(b:to) RETURN nodes, relationships,
\* length(path) AS path_length ORDER BY path_length LIMIT 10
get_paths_between(ns, es, from, to, max_hops, scan) ==
    Take(MatchedPaths(ns, es, from, to, max_hops, scan), PathLimit)

(***************************************************************************)
(* SpecTraverse: find_neighbors and get_paths_between on the graphs over   *)
(* three nodes whose relationships are drawn from a pool.  The calls only  *)
(* read the store, so every behaviour makes one call on its graph.         *)
(***************************************************************************)
NodeOf(ent) == [label |-> ent.label, name |-> ent.name, copy |-> 1]

TravA == [label |-> "Company", name |-> <<"a">>]
TravB == [label |-> "Company", name |-> <<"b">>]
TravC == [label |-> "Product", name |-> <<"c">>]
TravEntities == {TravA, TravB, TravC}

Rel(from, to, type) ==
    [src |-> NodeOf(from), dst |-> NodeOf(to), type |-> type, copy |-> 1, props |-> None]

EdgePool == {Rel(TravA, TravB, "MAKES"), Rel(TravA, TravB, "USES"), Rel(TravB, TravA, "MAKES"),
             Rel(TravA, TravC, "MAKES"), Rel(TravC, TravA, "USES"),
             Rel(TravC, TravB, "MAKES"), Rel(TravB, TravC, "USES")}

ScanOrders == {"forward", "backward"}

InitTraverse ==
    /\ nodes = {[label |-> e.label, name |-> e.name, copy |-> 1,
                  created |-> None, matched |-> None] : e \in TravEntities}
    /\ edges \in SUBSET EdgePool
    /\ NoGraphCalls
    /\ NoNormalize
    /\ NoExtract
    /\ NoPipeline
    /\ NoChain
    /\ query = NoQuery

FindNeighbors ==
    \E start \in TravEntities, max_hops \in 1..MaxHops, scan \in ScanOrders :
        /\ query = NoQuery
        /\ query' = [kind |-> "neighbors", start |-> start, max_hops |-> max_hops,
                      result |-> find_neighbors(nodes, edges, start.label, start.name,
                                                max_hops, scan)]
        /\ UNCHANGED <<nodes, edges, ops, lastOp, rawName, norm, extraction, pipeVars, chainVars>>

GetPathsBetween ==
    \E from \in TravEntities, to \in TravEntities, max_hops \in 1..MaxHops,
       scan \in ScanOrders :
        /\ query = NoQuery
        /\ query' = [kind |-> "paths", from |-> from, to |-> to, max_hops |-> max_hops,
                      matched |-> Len(MatchedPaths(nodes, edges, from, to, max_hops, scan)),
                      result |-> get_paths_between(nodes, edges, from, to, max_hops, scan)]
        /\ UNCHANGED <<nodes, edges, ops, lastOp, rawName, norm, extraction, pipeVars, chainVars>>

NextTraverse == FindNeighbors \/ GetPathsBetween

SpecTraverse == InitTraverse /\ [][NextTraverse]_vars

SortedByLength(rows) ==
    \A i \in 1..Len(rows), j \in 1..Len(rows) :
        i < j => rows[i].path_length <= rows[j].path_length

C8_PathCap ==
    query.kind = "paths" =>
        /\ Len(query.result) <= PathLimit
        /\ SortedByLength(query.result)
        /\ \A i \in 1..Len(query.result) : query.result[i].path_length \in 1..query.max_hops

\* More than 10 paths join the two nodes, of more than one length, and 10 came back.
C8_Witness ==
    /\ query.kind = "paths"
    /\ query.matched > PathLimit
    /\ Len(query.result) = PathLimit
    /\ query.result[1].path_length < query.result[PathLimit].path_length

(***************************************************************************)
(* The entity normaliser.  A string is a sequence of characters.           *)
(***************************************************************************)
UpperCase == <<"A", "B", "C", "D", "E", "F", "G", "H", "I", "J", "K", "L", "M",
               "N", "O", "P", "Q", "R", "S", "T", "U", "V", "W", "X", "Y", "Z">>
LowerCase == <<"a", "b", "c", "d", "e", "f", "g", "h", "i", "j", "k", "l", "m",
               "n", "o", "p", "q", "r", "s", "t", "u", "v", "w", "x", "y", "z">>

IsSpace(c) == c \in {" ", "\t", "\n"}

LowerChar(c) ==
    IF \E i \in 1..Len(UpperCase) : UpperCase[i] = c
    THEN LowerCase[CHOOSE i \in 1..Len(UpperCase) : UpperCase[i] = c]
    ELSE c

\* str.lower()
lower(s) == [i \in 1..Len(s) |-> LowerChar(s[i])]

RECURSIVE lstrip(_)
lstrip(s) == IF s # <<>> /\ IsSpace(Head(s)) THEN lstrip(Tail(s)) ELSE s

RECURSIVE rstrip(_)
rstrip(s) == IF s # <<>> /\ IsSpace(s[Len(s)]) THEN rstrip(SubSeq(s, 1, Len(s) - 1)) ELSE s

\* str.strip()
strip(s) == rstrip(lstrip(s))

RECURSIVE collapse_spaces(_)
\* re.sub(r"\s+", " ", s)
collapse_spaces(s) ==
    IF s = <<>> THEN <<>>
    ELSE IF IsSpace(Head(s)) THEN <<" ">> \o collapse_spaces(lstrip(s))
    ELSE <<Head(s)>> \o collapse_spaces(Tail(s))

\* The patterns r"\s+<word>\.?$" (dot) and r"\s+<word>$", in the order of the list.
COMPANY_SUFFIXES ==
    << [word |-> <<"i", "n", "c">>, dot |-> TRUE],
       [word |-> <<"i", "n", "c", "o", "r", "p", "o", "r", "a", "t", "e", "d">>, dot |-> FALSE],
       [word |-> <<"c", "o", "r", "p">>, dot |-> TRUE],
       [word |-> <<"c", "o", "r", "p", "o", "r", "a", "t", "i", "o", "n">>, dot |-> FALSE],
       [word |-> <<"l", "t", "d">>, dot |-> TRUE],
       [word |-> <<"l", "i", "m", "i", "t", "e", "d">>, dot |-> FALSE],
       [word |-> <<"l", "l", "c">>, dot |-> TRUE],
       [word |-> <<"c", "o">>, dot |-> TRUE],
       [word |-> <<"c", "o", "m", "p", "a", "n", "y">>, dot |-> FALSE],
       [word |-> <<"p", "l", "c">>, dot |-> TRUE],
       [word |-> <<"g", "m", "b", "h">>, dot |-> FALSE],
       [word |-> <<"a", "g">>, dot |-> FALSE] >>

\* s ends with whitespace followed by tail (compared ignoring case).
EndsWithSpaced(s, tail) ==
    /\ Len(s) > Len(tail)
    /\ lower(SubSeq(s, Len(s) - Len(tail) + 1, Len(s))) = tail
    /\ IsSpace(s[Len(s) - Len(tail)])

\* re.sub(suffix_pattern, "", s, flags=re.IGNORECASE): the match starts at the
\* first character of the whitespace run before the word and ends at the end of s.
sub_suffix(s, pattern) ==
    LET dotted == pattern.word \o <<".">> IN
    IF EndsWithSpaced(s, pattern.word)
    THEN rstrip(SubSeq(s, 1, Len(s) - Len(pattern.word)))
    ELSE IF pattern.dot /\ EndsWithSpaced(s, dotted)
    THEN rstrip(SubSeq(s, 1, Len(s) - Len(dotted)))
    ELSE s

RECURSIVE strip_suffixes(_, _)
\* for suffix_pattern in COMPANY_SUFFIXES: normalized = re.sub(...)
strip_suffixes(s, k) ==
    IF k > Len(COMPANY_SUFFIXES) THEN s
    ELSE strip_suffixes(sub_suffix(s, COMPANY_SUFFIXES[k]), k + 1)

normalize_entity_name(raw) ==
    IF raw = <<>> THEN <<>>
    ELSE strip(strip_suffixes(collapse_spaces(lower(strip(raw))), 1))

(***************************************************************************)
(* SpecNormalize: normalize_entity_name applied to every name made of at   *)
(* most MaxTokens tokens, and then to its own result.                      *)
(***************************************************************************)
Tokens == {<<"x">>, <<" ">>, <<".">>, <<" ", "I", "n", "c">>,
           <<" ", "c", "o", "r", "p">>, <<" ", "c", "o">>}

RECURSIVE NamesOf(_)
NamesOf(n) ==
    IF n = 0 THEN {<<>>}
    ELSE NamesOf(n - 1) \cup {s \o t : s \in NamesOf(n - 1), t \in Tokens}

InitNormalize ==
    /\ rawName \in NamesOf(MaxTokens)
    /\ norm = NotNormalized
    /\ nodes = {}
    /\ edges = {}
    /\ NoGraphCalls
    /\ NoTraversal
    /\ NoExtract
    /\ NoPipeline
    /\ NoChain

NormalizeName ==
    /\ ~norm.done
    /\ norm' = [done |-> TRUE, once |-> normalize_entity_name(rawName),
                 twice |-> normalize_entity_name(normalize_entity_name(rawName))]
    /\ UNCHANGED <<nodes, edges, ops, lastOp, query, rawName, extraction, pipeVars, chainVars>>

NextNormalize == NormalizeName

SpecNormalize == InitNormalize /\ [][NextNormalize]_vars

\* C4: normalize_entity_name is idempotent: normalising a normalised name gives
\* the same name, also for names that end in several suffixes in any order.
C4_NormalizeIdempotent == norm.done => norm.twice = norm.once

(***************************************************************************)
(* The knowledge extractor.  A JSON value that stands where a string is    *)
(* expected is a string, absent (the key is missing), null, another falsy  *)
(* value (0, false, [], {}) or another truthy value (5, true, [1]).        *)
(***************************************************************************)
Str(chars) == [t |-> "str", v |-> chars]
Missing == [t |-> "missing", v |-> <<>>]
JNull == [t |-> "null", v |-> <<>>]
JFalsy == [t |-> "falsy", v |-> <<>>]
JTruthy == [t |-> "truthy", v |-> <<>>]

\* Python truth value of a JSON value.
Truthy(x) == x.t = "truthy" \/ (x.t = "str" /\ x.v # <<>>)

\* item.get(key, default)
Get(x, default) == IF x.t = "missing" THEN default ELSE x

\* a or b
Or(a, b) == IF Truthy(a) THEN a ELSE b

UpperChar(c) ==
    IF \E i \in 1..Len(LowerCase) : LowerCase[i] = c
    THEN UpperCase[CHOOSE i \in 1..Len(LowerCase) : LowerCase[i] = c]
    ELSE c

\* predicate.upper().replace(" ", "_")
upper_snake(p) == [i \in 1..Len(p) |-> IF p[i] = " " THEN "_" ELSE UpperChar(p[i])]

RELATED_TO == <<"R", "E", "L", "A", "T", "E", "D", "_", "T", "O">>

DefaultType(x) == IF x = "Missing" THEN "Entity" ELSE x

\* normalize_entity_name on whatever item.get returned: `if not name: return ""`
\* answers every falsy value, and name.strip() raises on a truthy non-string.
NormalizeRaises(x) == x.t = "truthy"
NormalizeValue(x) == IF x.t = "str" THEN Str(normalize_entity_name(x.v)) ELSE Str(<<>>)

\* Building the Triple of one item raises (AttributeError).
ItemRaises(item, normalize) ==
    \/ item.shape # "object"
    \/ /\ normalize
       /\ \/ NormalizeRaises(Get(item.subject, Str(<<>>)))
          \/ NormalizeRaises(Get(item.object, Str(<<>>)))
          \/ Get(item.predicate, Str(RELATED_TO)).t # "str"

\* The Triple built from one item (lines 256-274).
TripleOf(item, normalize) ==
    LET subject == Get(item.subject, Str(<<>>))
        predicate == Get(item.predicate, Str(RELATED_TO))
        object == Get(item.object, Str(<<>>))
    IN [subject |-> IF normalize THEN Or(NormalizeValue(subject), subject) ELSE subject,
        subject_type |-> DefaultType(item.subject_type),
        predicate |-> IF normalize THEN Str(upper_snake(predicate.v)) ELSE predicate,
        object |-> IF normalize THEN Or(NormalizeValue(object), object) ELSE object,
        object_type |-> DefaultType(item.object_type),
        properties |-> item.properties]

RECURSIVE parse_items(_, _)
\* for item in data.get("triples", []): ... if triple.subject and triple.object: append
parse_items(items, normalize) ==
    IF items = <<>> THEN [raised |-> FALSE, triples |-> <<>>]
    ELSE IF ItemRaises(Head(items), normalize) THEN [raised |-> TRUE, triples |-> <<>>]
    ELSE LET triple == TripleOf(Head(items), normalize)
             rest == parse_items(Tail(items), normalize)
         IN IF rest.raised THEN rest
            ELSE IF Truthy(triple.subject) /\ Truthy(triple.object)
            THEN [rest EXCEPT !.triples = <<triple>> \o @]
            ELSE rest

\* _parse_response: the exception it raises (None when it returns) and its triples.
parse_response(response, normalize) ==
    IF response.json = "none"
    THEN [exc |-> "ValueError", msg |-> "No JSON object found in response", triples |-> <<>>]
    ELSE IF response.json = "invalid"
    THEN [exc |-> "JSONDecodeError", msg |-> "Expecting value", triples |-> <<>>]
    ELSE IF response.triples.t = "missing"
    THEN [exc |-> None, msg |-> "", triples |-> <<>>]
    ELSE IF response.triples.t # "list"
    THEN [exc |-> "TypeError", msg |-> "object is not iterable", triples |-> <<>>]
    ELSE LET parsed == parse_items(response.triples.items, normalize) IN
         IF parsed.raised
         THEN [exc |-> "AttributeError", msg |-> "object has no attribute", triples |-> <<>>]
         ELSE [exc |-> None, msg |-> "", triples |-> parsed.triples]

\* The try block of extract: self._llm.invoke, then _parse_response.
TryExtract(response, normalize) ==
    IF response.kind = "raises"
    THEN [exc |-> response.exc, msg |-> response.msg, triples |-> <<>>]
    ELSE parse_response(response, normalize)

\* extract without its last handler, `except Exception`.
extract_unguarded(response, normalize) ==
    LET tried == TryExtract(response, normalize) IN
    IF tried.exc = None
    THEN [raised |-> FALSE, triples |-> tried.triples, error |-> None]
    ELSE IF tried.exc = "JSONDecodeError"
    THEN [raised |-> FALSE, triples |-> <<>>, error |-> "Failed to parse LLM response as JSON"]
    ELSE IF tried.exc = "ValueError"
    THEN [raised |-> FALSE, triples |-> <<>>, error |-> tried.msg]
    ELSE [raised |-> TRUE, triples |-> <<>>, error |-> None]

\* EntityExtractor.extract: raised tells whether an exception leaves the call.
extract(response, normalize) ==
    LET tried == TryExtract(response, normalize) IN
    IF tried.exc = None
    THEN [raised |-> FALSE, triples |-> tried.triples, error |-> None]
    ELSE IF tried.exc = "JSONDecodeError"
    THEN [raised |-> FALSE, triples |-> <<>>, error |-> "Failed to parse LLM response as JSON"]
    ELSE IF tried.exc = "ValueError"
    THEN [raised |-> FALSE, triples |-> <<>>, error |-> tried.msg]
    ELSE [raised |-> FALSE, triples |-> <<>>, error |-> "Extraction failed"]

(***************************************************************************)
(* SpecExtract: one extract call on every response of the generation       *)
(* service: an exception, a text without a JSON object, a text whose       *)
(* braces enclose invalid JSON, and a JSON object whose "triples" value is *)
(* absent, null or a list of at most MaxItems items from a pool.           *)
(***************************************************************************)
Item(subject, predicate, object) ==
    [shape |-> "object", subject |-> subject, subject_type |-> "Company",
     predicate |-> predicate, object |-> object, object_type |-> "Missing",
     properties |-> None]

Makes == Str(<<"m", "a", "d", "e", " ", "b", "y">>)
MadeBy == Str(<<"m", "a", "d", "e", "-", "b", "y">>)
NameA == Str(<<"A", " ", "I", "n", "c", ".">>)
NameB == Str(<<"b">>)

ItemPool == {Item(NameA, Makes, NameB),
             Item(NameA, MadeBy, NameB),
             Item(Str(<<" ", " ">>), Makes, NameB),
             Item(NameA, Missing, Str(<<>>)),
             Item(NameA, Makes, Missing),
             Item(JNull, Makes, NameB),
             Item(NameA, Makes, JFalsy),
             Item(JTruthy, Makes, NameB),
             Item(NameA, JNull, NameB),
             [Item(Missing, Missing, Missing) EXCEPT !.shape = "other"]}

RECURSIVE ItemLists(_)
ItemLists(n) ==
    IF n = 0 THEN {<<>>}
    ELSE ItemLists(n - 1) \cup {Append(l, i) : l \in ItemLists(n - 1), i \in ItemPool}

NoTriples == [t |-> "missing", items |-> <<>>]

Raising == {[kind |-> "raises", exc |-> e, msg |-> m, json |-> "none", triples |-> NoTriples] :
               e \in {"ValueError", "RuntimeError"}, m \in {"", "connection refused"}}

Texts(lists) ==
    {[kind |-> "text", exc |-> None, msg |-> "", json |-> j, triples |-> NoTriples] :
        j \in {"none", "invalid", "object"}}
    \cup {[kind |-> "text", exc |-> None, msg |-> "", json |-> "object",
           triples |-> [t |-> "null", items |-> <<>>]]}
    \cup {[kind |-> "text", exc |-> None, msg |-> "", json |-> "object",
           triples |-> [t |-> "list", items |-> l]] : l \in lists}

Responses == Raising \cup Texts(ItemLists(MaxItems))

InitExtract ==
    /\ extraction = NotExtracted
    /\ nodes = {}
    /\ edges = {}
    /\ NoGraphCalls
    /\ NoTraversal
    /\ NoNormalize
    /\ NoPipeline
    /\ NoChain

Extract ==
    \E response \in Responses, normalize \in BOOLEAN :
        /\ ~extraction.done
        /\ extraction' = [done |-> TRUE, response |-> response, normalize |-> normalize,
                          result |-> extract(response, normalize)]
        /\ UNCHANGED <<nodes, edges, ops, lastOp, query, rawName, norm, pipeVars, chainVars>>

NextExtract == Extract

SpecExtract == InitExtract /\ [][NextExtract]_vars

\* The value normalises to the empty string.
NormalizesToEmpty(x) == ~NormalizeRaises(x) /\ NormalizeValue(x).v = <<>>

ItemsOf(response) ==
    IF response.kind = "text" /\ response.json = "object" /\ response.triples.t = "list"
    THEN response.triples.items ELSE <<>>

\* C5: with normalization enabled every returned triple has a subject and an
\* object whose normalised form is non-empty, and every item whose subject or
\* object normalises to the empty string is dropped: the returned count is the
\* item count less the number of such items.
C5_EmptyNamesDropped ==
    (extraction.done /\ extraction.normalize /\ extraction.result.error = None) =>
        LET items == ItemsOf(extraction.response)
            triples == extraction.result.triples
            empty == {i \in 1..Len(items) :
                        \/ NormalizesToEmpty(Get(items[i].subject, Str(<<>>)))
                        \/ NormalizesToEmpty(Get(items[i].object, Str(<<>>)))}
        IN /\ \A i \in 1..Len(triples) :
                 /\ ~NormalizesToEmpty(triples[i].subject)
                 /\ ~NormalizesToEmpty(triples[i].object)
           /\ Len(triples) = Len(items) - Cardinality(empty)

\* The characters of an upper-snake-case name.
UpperSnakeChars ==
    {UpperCase[i] : i \in 1..Len(UpperCase)}
    \cup {"0", "1", "2", "3", "4", "5", "6", "7", "8", "9", "_"}

\* C25: every triple extract returns has a string predicate made of upper-case
\* letters, digits and underscores only.
C25_PredicateUpperSnake ==
    extraction.done =>
        \A i \in 1..Len(extraction.result.triples) :
            LET predicate == extraction.result.triples[i].predicate IN
            /\ predicate.t = "str"
            /\ \A k \in 1..Len(predicate.v) : predicate.v[k] \in UpperSnakeChars

(***************************************************************************)
(* SpecBounded: one extract call, with the call to the generation service  *)
(* as a step of its own: extract issues self._llm.invoke(prompt) and goes  *)
(* on when the service answers or fails.  A service that never responds    *)
(* gives no such step, and the code sets no timeout on the call that would *)
(* give one.  The steps of the program are taken when they can be.         *)
(***************************************************************************)
\* response = self._llm.invoke(prompt) is issued.  The response the service
\* would give fixes what extract returns once the call comes back: returns is
\* that ExtractionResult, built by _parse_response and the handlers of extract.
InvokeLlm ==
    \E response \in Responses, normalize \in BOOLEAN, responds \in BOOLEAN :
        /\ ~extraction.done
        /\ extraction = NotExtracted
        /\ extraction' = [done |-> FALSE, pc |-> "invoked", response |-> response,
                          normalize |-> normalize, responds |-> responds,
                          returns |-> extract(response, normalize)]
        /\ UNCHANGED <<nodes, edges, ops, lastOp, query, rawName, norm, pipeVars, chainVars>>

\* The service answers, or the call fails: extract goes through _parse_response or
\* its handlers and returns.
LlmAnswers ==
    /\ ~extraction.done
    /\ extraction # NotExtracted
    /\ extraction.responds
    /\ extraction' = [done |-> TRUE, pc |-> "returned", response |-> extraction.response,
                      normalize |-> extraction.normalize, responds |-> TRUE,
                      result |-> extraction.returns]
    /\ UNCHANGED <<nodes, edges, ops, lastOp, query, rawName, norm, pipeVars, chainVars>>

NextBounded == InvokeLlm \/ LlmAnswers

\* The caller is free to call extract or not; a call that is under way goes on
\* whenever it can.
SpecBounded == InitExtract /\ [][NextBounded]_vars /\ WF_vars(LlmAnswers)

\* extract has issued its call to the generation service.
Invoked == extraction # NotExtracted /\ ~extraction.done

\* C21: an extract call that has issued its call to the generation service
\* eventually returns, whether or not the service ever responds.
C21_ExtractEventuallyReturns == Invoked ~> extraction.done

(***************************************************************************)
(* SpecLocate: one extract call on a response given as text: commentary, a *)
(* JSON object with a "triples" array, commentary.  The text is a sequence *)
(* of tokens: "{", "}", "t" for the body of the object ("triples": [...])  *)
(* and "x" for any other character.                                        *)
(***************************************************************************)
MaxCommentary == 2

RECURSIVE Commentary(_)
Commentary(n) ==
    IF n = 0 THEN {<<>>}
    ELSE Commentary(n - 1) \cup
         {Append(c, ch) : c \in Commentary(n - 1), ch \in {"x", "{", "}"}}

JsonObject == <<"{", "t", "}">>

\* The triples arrays of the object in the text.
LocateLists == {<<>>, <<Item(NameA, Makes, NameB)>>, <<Item(NameA, Makes, NameB), Item(NameB, Makes, NameA)>>}

\* re.search(r"\{[\s\S]*\}", response): from the first "{" to the last "}" after it.
search_braces(text) ==
    LET opens == {k \in 1..Len(text) : text[k] = "{"}
        first == CHOOSE k \in opens : \A o \in opens : k <= o
        closes == {k \in 1..Len(text) : text[k] = "}" /\ k > first}
    IN IF opens = {} \/ closes = {} THEN [found |-> FALSE, group |-> <<>>]
       ELSE [found |-> TRUE,
             group |-> SubSeq(text, first, CHOOSE k \in closes : \A c \in closes : k >= c)]

\* json.loads of the matched text: the object of the response, the empty object
\* {}, or a JSONDecodeError; then data.get("triples", []).
Located(text, items) ==
    LET match == search_braces(text) IN
    [kind |-> "text", exc |-> None, msg |-> "",
     json |-> IF ~match.found THEN "none"
              ELSE IF match.group \in {JsonObject, <<"{", "}">>} THEN "object"
              ELSE "invalid",
     triples |-> IF match.found /\ match.group = JsonObject
                 THEN [t |-> "list", items |-> items] ELSE NoTriples]

ExtractFromText ==
    \E before \in Commentary(MaxCommentary), after \in Commentary(MaxCommentary),
       items \in LocateLists :
        LET text == before \o JsonObject \o after
            response == Located(text, items)
        IN /\ ~extraction.done
           /\ extraction' = [done |-> TRUE, response |-> response, normalize |-> TRUE,
                             result |-> extract(response, TRUE),
                             text |-> text, before |-> before, after |-> after,
                             items |-> items]
           /\ UNCHANGED <<nodes, edges, ops, lastOp, query, rawName, norm, pipeVars, chainVars>>

NextLocate == ExtractFromText

SpecLocate == InitExtract /\ [][NextLocate]_vars

\* The commentary holds a JSON object of its own: {}.
HoldsObject(c) == \E k \in 1..(Len(c) - 1) : c[k] = "{" /\ c[k + 1] = "}"

\* C24: whatever the commentary around the one JSON object of the response,
\* extract returns the triples of that object and no error.
C24_FirstObjectLocated ==
    (extraction.done /\ ~HoldsObject(extraction.before) /\ ~HoldsObject(extraction.after)) =>
        /\ extraction.result.error = None
        /\ extraction.result.triples =
               parse_items(extraction.items, TRUE).triples

\* An item has a shape the extraction prompt does not ask for.
UnexpectedShape(item) ==
    \/ item.shape # "object"
    \/ \E x \in {item.subject, item.predicate, item.object} : x.t \in {"null", "falsy", "truthy"}

HashPrefix == 12

TextA == <<"a", "b">>
TextB == <<"b", "a">>
TextPool == {TextA, TextB}

\* hashlib.md5(text.encode()).hexdigest() of the texts of TextPool.
hexdigest(text) ==
    IF text = TextA
    THEN <<"1", "8", "7", "e", "f", "4", "4", "3", "6", "1", "2", "2", "d", "1", "c", "c",
           "2", "f", "4", "0", "d", "c", "2", "b", "9", "2", "f", "0", "e", "b", "a", "0">>
    ELSE <<"0", "7", "1", "5", "9", "c", "4", "7", "e", "e", "1", "b", "1", "9", "a", "e",
           "4", "f", "b", "9", "c", "4", "0", "d", "4", "8", "0", "8", "5", "6", "c", "4">>

\* f"doc_{text_hash}" with text_hash = hexdigest()[:12]
_generate_doc_id(text) == <<"d", "o", "c", "_">> \o Take(hexdigest(text), HashPrefix)

HasId(ds, id) == \E k \in 1..Len(ds) : ds[k].id = id

\* collection.add that stores a second document under an id already held.
add_documents_again(ds, id, text, metadata) ==
    Append(ds, [id |-> id, text |-> text, metadata |-> metadata])

\* collection.add(documents=[text], ids=[id], metadatas=[metadata]) when it does
\* not raise: an id the collection already holds is left as it is.
add_documents(ds, id, text, metadata) ==
    IF HasId(ds, id) THEN ds
    ELSE Append(ds, [id |-> id, text |-> text, metadata |-> metadata])

\* _create_node without its try/except: the store's exception leaves the call.
_create_node_propagating(ns, label, name, store_raises) ==
    IF store_raises THEN [returned |-> FALSE, value |-> FALSE, nodes |-> ns]
    ELSE [returned |-> TRUE, value |-> TRUE,
          nodes |-> merge_node(ns, label, name, None, None)]

\* IngestionPipeline._create_node: True when graph.merge_node returned, False
\* (after logging) when it raised; returned tells that no exception leaves it.
_create_node(ns, label, name, store_raises) ==
    IF store_raises THEN [returned |-> TRUE, value |-> FALSE, nodes |-> ns]
    ELSE [returned |-> TRUE, value |-> TRUE,
          nodes |-> merge_node(ns, label, name, None, None)]

\* IngestionPipeline._create_relationship, likewise around graph.merge_relationship.
_create_relationship(ns, es, triple, store_raises) ==
    IF store_raises
    THEN [returned |-> TRUE, value |-> FALSE, nodes |-> ns, edges |-> es]
    ELSE LET g == merge_relationship(ns, es, triple.subject_type, triple.subject.v,
                                     triple.object_type, triple.object.v,
                                     triple.predicate.v, triple.properties)
         IN [returned |-> TRUE, value |-> TRUE, nodes |-> g.nodes, edges |-> g.edges]

\* The keys a triple merges.
SubjectKey(triple) == <<triple.subject_type, triple.subject.v>>
ObjectKey(triple) == <<triple.object_type, triple.object.v>>
RelationshipKey(triple) == <<SubjectKey(triple), ObjectKey(triple), triple.predicate.v>>

\* The key of a stored relationship, by the keys of its endpoints.
StoredKey(e) == <<<<e.src.label, e.src.name>>, <<e.dst.label, e.dst.name>>, e.type>>

Count(ds, text) == Cardinality({k \in 1..Len(ds) : ds[k].text = text})

\* No store call of the call raised: every merge and the add answered.
Stored(triples, result) ==
    /\ result.nodes_created = 2 * Len(triples)
    /\ result.relationships_created = Len(triples)
    /\ result.documents_added = 1

\* What a returning call was given and leaves behind, and, when the call that
\* returned before it was given the same text and the same triples, what that
\* one left behind.
Returned(tk, result, ns, es, ds, before) ==
    LET repeat == before.done /\ before.text = tk.text /\ before.triples = tk.triples IN
    [done |-> TRUE, text |-> tk.text, triples |-> tk.triples,
     stored |-> Stored(tk.triples, result),
     nodes |-> Cardinality(ns), edges |-> Cardinality(es), documents |-> Count(ds, tk.text),
     repeat |-> repeat,
     first |-> IF repeat
               THEN [stored |-> before.stored, nodes |-> before.nodes, edges |-> before.edges]
               ELSE NoFirst]

Active(tk) == tk.pc \notin {"idle", "done", "raised"}

(***************************************************************************)
(* ingest_text, cut into its store calls: the extraction, each node merge, *)
(* each relationship merge and the vector add are one step each.  Every    *)
(* store call may raise.  The pipeline is given its graph manager.         *)
(*                                                                         *)
(* Spec: one caller calls ingest_text again and again, at most MaxCalls    *)
(* times, each call after the one before has returned.                     *)
(* SpecBatch: the tasks of one ingest_file batch each call ingest_text     *)
(* once, and their steps interleave freely.                                *)
(***************************************************************************)
MaxCalls == 2

Uses == Str(<<"u", "s", "e", "s">>)
PipelineLists == {<<Item(NameA, Makes, NameB)>>,
                  <<Item(NameA, Makes, NameB), Item(NameB, Uses, NameA)>>}

\* What the generation service answers: it fails, or names one or two triples.
PipelineResponses ==
    {[kind |-> "raises", exc |-> "RuntimeError", msg |-> "connection refused",
      json |-> "none", triples |-> NoTriples]}
    \cup {[kind |-> "text", exc |-> None, msg |-> "", json |-> "object",
           triples |-> [t |-> "list", items |-> l]] : l \in PipelineLists}

Init ==
    /\ nodes = {}
    /\ edges = {}
    /\ NoPipeline
    /\ NoChain
    /\ NoGraphCalls
    /\ NoTraversal
    /\ NoNormalize
    /\ NoExtract

\* ingest_text up to the graph step: result = IngestionResult(), the extraction,
\* `if extraction.error: result.errors.append(...)`, `if extraction.triples:`.
\* With triples and no manager given, GraphDatabaseManager() is constructed before
\* the try block: when it raises the exception leaves ingest_text.
ingest_text(t, text, metadata, responses) ==
    \E response \in responses, constructor_raises \in BOOLEAN :
        LET extracted == extract(response, TRUE)
            constructs == extracted.triples # <<>> /\ ~injected
            started == [IdleTask EXCEPT
                          !.pc = IF extracted.triples = <<>> THEN "vector"
                                 ELSE IF constructs /\ constructor_raises THEN "raised"
                                 ELSE "subject",
                          !.text = text,
                          !.metadata = metadata,
                          !.triples = extracted.triples,
                          !.i = 1,
                          !.error = extracted.error,
                          !.constructed = constructs /\ ~constructor_raises,
                          !.result.errors = IF extracted.error \in {None, ""} THEN <<>>
                                            ELSE <<extracted.error>>]
        IN /\ ~Active(task[t])
           /\ constructor_raises => constructs
           /\ calls' = calls + 1
           /\ task' = [task EXCEPT ![t] = started]
           /\ UNCHANGED <<nodes, edges, docs, last, merged,
                          injected, file, vector, ops, lastOp, query, rawName, norm, extraction, chainVars>>

IngestText(t) ==
    \E text \in TextPool :
        /\ calls < MaxCalls
        /\ ingest_text(t, text, NoMetadata, PipelineResponses)

\* The task after a _create_node or _create_relationship call: the counter goes up
\* when the call answered True; an exception leaving the call is caught by the
\* `except Exception` around the loop, which ends the graph step.
AfterCreate(tk, kind, out, counter, pc, i) ==
    IF out.returned
    THEN [tk EXCEPT !.attempts = Append(@, <<tk.i, kind>>),
                    !.used_closed = @ \/ (tk.constructed /\ tk.closes > 0),
                    !.result[counter] = IF out.value THEN @ + 1 ELSE @,
                    !.pc = pc,
                    !.i = i]
    ELSE [tk EXCEPT !.attempts = Append(@, <<tk.i, kind>>),
                    !.used_closed = @ \/ (tk.constructed /\ tk.closes > 0),
                    !.result.errors = Append(@, "Graph database error"),
                    !.result.success = FALSE,
                    !.pc = "vector"]

\* Leaving the block without __exit__: the manager is left open.
AfterWith_unclosed(tk, close_raises) == tk

\* Leaving `with graph`, after the last triple or on an exception, runs __exit__,
\* which closes a manager that ingest_text constructed (the null context of an
\* injected manager closes nothing); close() raising is caught by the
\* `except Exception` of the graph step.
AfterWith(tk, close_raises) ==
    IF tk.pc # "vector" \/ ~tk.constructed THEN tk
    ELSE IF close_raises
    THEN [tk EXCEPT !.closes = @ + 1,
                    !.result.errors = Append(@, "Graph database error"),
                    !.result.success = FALSE]
    ELSE [tk EXCEPT !.closes = @ + 1]

\* if await self._create_node(target_graph, triple.subject_type, triple.subject)
CreateSubject(t) ==
    \E store_raises \in BOOLEAN :
        LET tk == task[t]
            triple == tk.triples[tk.i]
            out == _create_node(nodes, triple.subject_type, triple.subject.v, store_raises)
        IN /\ tk.pc = "subject"
           /\ nodes' = out.nodes
           /\ merged' = IF out.value
                        THEN [merged EXCEPT !.nodes = @ \cup {SubjectKey(triple)}]
                        ELSE merged
           /\ task' = [task EXCEPT
                         ![t] = AfterWith(AfterCreate(tk, "subject", out, "nodes_created",
                                                      "object", tk.i), FALSE)]
           /\ UNCHANGED <<edges, docs, calls, last,
                          injected, file, vector, ops, lastOp, query, rawName, norm, extraction, chainVars>>

\* if await self._create_node(target_graph, triple.object_type, triple.object)
CreateObject(t) ==
    \E store_raises \in BOOLEAN :
        LET tk == task[t]
            triple == tk.triples[tk.i]
            out == _create_node(nodes, triple.object_type, triple.object.v, store_raises)
        IN /\ tk.pc = "object"
           /\ nodes' = out.nodes
           /\ merged' = IF out.value
                        THEN [merged EXCEPT !.nodes = @ \cup {ObjectKey(triple)}]
                        ELSE merged
           /\ task' = [task EXCEPT
                         ![t] = AfterWith(AfterCreate(tk, "object", out, "nodes_created",
                                                      "relationship", tk.i), FALSE)]
           /\ UNCHANGED <<edges, docs, calls, last,
                          injected, file, vector, ops, lastOp, query, rawName, norm, extraction, chainVars>>

\* if await self._create_relationship(target_graph, triple), then the next triple
CreateRelationship(t) ==
    \E store_raises \in BOOLEAN, close_raises \in BOOLEAN :
        LET tk == task[t]
            triple == tk.triples[tk.i]
            out == _create_relationship(nodes, edges, triple, store_raises)
            more == tk.i < Len(tk.triples)
        IN /\ tk.pc = "relationship"
           /\ close_raises => (~more /\ ~injected)
           /\ nodes' = out.nodes
           /\ edges' = out.edges
           /\ merged' = IF out.value
                        THEN [nodes |-> merged.nodes \cup {SubjectKey(triple), ObjectKey(triple)},
                              edges |-> merged.edges \cup {RelationshipKey(triple)}]
                        ELSE merged
           /\ task' = [task EXCEPT
                         ![t] = AfterWith(
                                    AfterCreate(tk, "relationship", out, "relationships_created",
                                                IF more THEN "subject" ELSE "vector",
                                                IF more THEN tk.i + 1 ELSE tk.i),
                                    close_raises)]
           /\ UNCHANGED <<docs, calls, last,
                          injected, file, vector, ops, lastOp, query, rawName, norm, extraction, chainVars>>

(***************************************************************************)
(* The vector manager's collection cache (src/database/vector_db.py).      *)
(***************************************************************************)
MaxVectorOps == 4

\* self._client.get_or_create_collection(name=name, ...): the collection of that
\* name, made first when the client holds none; or the call raises.
get_or_create_collection(v, name, raises) ==
    IF raises THEN [raised |-> TRUE, v |-> v, handle |-> 0]
    ELSE IF v.client[name] # 0 THEN [raised |-> FALSE, v |-> v, handle |-> v.client[name]]
    ELSE [raised |-> FALSE,
          v |-> [v EXCEPT !.client[name] = v.created + 1, !.created = @ + 1],
          handle |-> v.created + 1]

\* get_collection that asks the client each time and caches nothing.
get_collection_uncached(v, name, raises) ==
    LET got == get_or_create_collection(v, name, raises)
    IN [raised |-> got.raised, handle |-> got.handle,
        v |-> [got.v EXCEPT !.called[name] = @ + 1,
                            !.fetched[name] = IF got.raised THEN @ ELSE @ + 1,
                            !.last = [op |-> "get", name |-> name, raised |-> got.raised,
                                      fetched |-> TRUE, before |-> v.collections]]]

\* VectorDatabaseManager.get_collection: called and fetched count the client
\* calls made and returned for the name since its last deletion.
get_collection(v, name, raises) ==
    IF v.collections[name] # 0
    THEN [raised |-> FALSE, handle |-> v.collections[name],
          v |-> [v EXCEPT !.last = [op |-> "get", name |-> name, raised |-> FALSE,
                                    fetched |-> FALSE, before |-> v.collections]]]
    ELSE LET got == get_or_create_collection(v, name, raises)
         IN [raised |-> got.raised, handle |-> got.handle,
             v |-> [got.v EXCEPT !.collections[name] = got.handle,
                                 !.called[name] = @ + 1,
                                 !.fetched[name] = IF got.raised THEN @ ELSE @ + 1,
                                 !.last = [op |-> "get", name |-> name, raised |-> got.raised,
                                           fetched |-> TRUE, before |-> v.collections]]]

\* delete_collection that leaves the handle in the cache.
delete_collection_stale(v, name, raises) ==
    IF raises \/ v.client[name] = 0
    THEN [v EXCEPT !.last = [op |-> "delete", name |-> name, raised |-> TRUE,
                             fetched |-> FALSE, before |-> v.collections]]
    ELSE [v EXCEPT !.client[name] = 0,
                   !.called[name] = 0,
                   !.fetched[name] = 0,
                   !.last = [op |-> "delete", name |-> name, raised |-> FALSE,
                             fetched |-> FALSE, before |-> v.collections]]

\* VectorDatabaseManager.delete_collection: self._client.delete_collection(name)
\* raises for a collection the client does not hold, or on its own; the cache
\* entry goes only after it returned.
delete_collection(v, name, raises) ==
    IF raises \/ v.client[name] = 0
    THEN [v EXCEPT !.last = [op |-> "delete", name |-> name, raised |-> TRUE,
                             fetched |-> FALSE, before |-> v.collections]]
    ELSE [v EXCEPT !.client[name] = 0,
                   !.collections[name] = 0,
                   !.called[name] = 0,
                   !.fetched[name] = 0,
                   !.last = [op |-> "delete", name |-> name, raised |-> FALSE,
                             fetched |-> FALSE, before |-> v.collections]]

\* Step 3 and the return: add_documents under _generate_doc_id(text) with
\* {**metadata, "source": "ingestion"}; documents_added = 1 unless it raised.  The
\* collection comes from get_collection, which fills the cache at the first add;
\* an add that raises does so in collection.add.
AddToVector(t) ==
    \E store_raises \in BOOLEAN :
        LET tk == task[t]
            collection == get_collection(vector, CollectionName, FALSE)
            added == add_documents(docs, _generate_doc_id(tk.text), tk.text,
                                   [file |-> tk.metadata.file,
                                    line_number |-> tk.metadata.line_number,
                                    source |-> "ingestion"])
            ds == IF store_raises THEN docs ELSE added
            result == IF store_raises
                      THEN [tk.result EXCEPT !.errors = Append(@, "Vector database error")]
                      ELSE [tk.result EXCEPT !.documents_added = 1]
        IN /\ tk.pc = "vector"
           /\ docs' = ds
           /\ vector' = [vector EXCEPT !.collections = collection.v.collections,
                                       !.client = collection.v.client,
                                       !.created = collection.v.created]
           /\ last' = Returned(tk, result, nodes, edges, ds, last)
           /\ task' = [task EXCEPT
                         ![t] = [tk EXCEPT !.pc = "done", !.result = result,
                                           !.adds = Append(@, [id |-> _generate_doc_id(tk.text),
                                                               text |-> tk.text,
                                                               merges |-> Len(tk.attempts),
                                                               raised |-> store_raises])]]
           /\ UNCHANGED <<nodes, edges, calls, merged,
                          injected, file, ops, lastOp, query, rawName, norm, extraction, chainVars>>

Caller == "t1"

Next ==
    \/ IngestText(Caller)
    \/ CreateSubject(Caller)
    \/ CreateObject(Caller)
    \/ CreateRelationship(Caller)
    \/ AddToVector(Caller)

Spec == Init /\ [][Next]_vars

\* tasks = [self.ingest_text(text, meta) for text, meta in batch]; gather(*tasks)
GatherTask(t) == task[t].pc = "idle" /\ IngestText(t)

NextBatch ==
    \E t \in Tasks :
        \/ GatherTask(t)
        \/ CreateSubject(t)
        \/ CreateObject(t)
        \/ CreateRelationship(t)
        \/ AddToVector(t)

SpecBatch == Init /\ [][NextBatch]_vars

\* The merges ingest_text makes for its triples when none is skipped over, in order.
MergeKinds == <<"subject", "object", "relationship">>
AllMerges(triples) ==
    [k \in 1..(3 * Len(triples)) |-> <<((k - 1) \div 3) + 1, MergeKinds[((k - 1) % 3) + 1]>>]

\* The number of merges a task has behind it when the graph step is at pc for triple i.
MergesBehind(tk) ==
    3 * (tk.i - 1) + (CASE tk.pc = "subject" -> 0
                        [] tk.pc = "object" -> 1
                        [] tk.pc = "relationship" -> 2)

\* C10: a node merge or relationship merge that raises is skipped and does not
\* propagate: whichever merges raised, the merges ingest_text has attempted are
\* always the merges of its triples in order with none left out, all of them once
\* the graph step is over; no merge failure ends the graph step (success stays
\* true), and the call returns its result.
C10_FailedMergeSkipped ==
    \A t \in Tasks :
        LET tk == task[t] IN
        /\ tk.pc \in {"subject", "object", "relationship"} =>
              tk.attempts = Take(AllMerges(tk.triples), MergesBehind(tk))
        /\ tk.pc \in {"vector", "done"} =>
              /\ tk.attempts = AllMerges(tk.triples)
              /\ tk.result.success
        /\ tk.pc = "done" => last.done

\* Both node merges of both triples raised, the relationship merge of one of them
\* too, and the call made all six merges and returned.
C10_Witness ==
    /\ task[Caller].pc = "done"
    /\ Len(task[Caller].triples) = 2
    /\ task[Caller].result.nodes_created = 0
    /\ task[Caller].result.relationships_created = 1
    /\ Len(task[Caller].attempts) = 6

\* C3: whatever the interleaving of the store calls of concurrent ingestion
\* tasks, the graph holds exactly one node for every node key and one
\* relationship for every relationship key that a merge has committed, and
\* nothing else: the graph that the same merges give one after the other.
C3_OneNodeAndEdgePerKey ==
    /\ \A k \in merged.nodes : Cardinality({n \in nodes : NodeKey(n) = k}) = 1
    /\ \A n \in nodes : NodeKey(n) \in merged.nodes
    /\ \A k \in merged.edges : Cardinality({e \in edges : StoredKey(e) = k}) = 1
    /\ \A e \in edges : StoredKey(e) \in merged.edges

\* Two tasks given the same triples have both merged the same two node keys and
\* both are about to merge the same relationship key.
C3_Witness ==
    /\ task["t1"].pc = "relationship"
    /\ task["t2"].pc = "relationship"
    /\ task["t1"].triples = task["t2"].triples
    /\ task["t1"].result.nodes_created = 2
    /\ task["t2"].result.nodes_created = 2
    /\ Cardinality(nodes) = 2

FailedMerges(tk) ==
    3 * Len(tk.triples) - tk.result.nodes_created - tk.result.relationships_created

\* C11: when the graph step of ingest_text is over, success is true and the
\* errors list holds one entry for the extraction failure, if there was one, and
\* one entry for every node merge and relationship merge that raised.
C11_FailuresAccumulated ==
    \A t \in Tasks :
        task[t].pc = "vector" =>
            /\ task[t].result.success
            /\ Len(task[t].result.errors) =
                   (IF task[t].error = None THEN 0 ELSE 1) + FailedMerges(task[t])

\* C26: an ingest_text call that has ended made exactly one vector-store add, of
\* its text under the id derived from the text and after every graph merge of the
\* call, and documents_added is 1 exactly when that add did not raise.
C26_OneVectorAddPerCall ==
    \A t \in Tasks :
        LET tk == task[t] IN
        tk.pc \in {"done", "raised"} =>
            /\ Len(tk.adds) = 1
            /\ tk.adds[1].text = tk.text
            /\ tk.adds[1].id = _generate_doc_id(tk.text)
            /\ tk.adds[1].merges = Len(tk.attempts)
            /\ (tk.result.documents_added = 1) <=> ~tk.adds[1].raised

\* C27: a graph manager that ingest_text constructed has been closed exactly once
\* when the graph step is over, and so when ingest_text returns; it is open
\* throughout the graph step and no merge is sent to it once closed; and a call
\* that constructed none (the manager was injected, or there was no triple)
\* closes none.
C27_ManagerClosedOnce ==
    \A t \in Tasks :
        LET tk == task[t] IN
        /\ (tk.pc \in {"vector", "done"} /\ tk.constructed) => tk.closes = 1
        /\ tk.pc \in {"subject", "object", "relationship"} => tk.closes = 0
        /\ ~tk.constructed => tk.closes = 0
        /\ injected => ~tk.constructed
        /\ ~tk.used_closed

(***************************************************************************)
(* SpecFile: one ingest_file call.  The file cannot be read, or it holds   *)
(* at most MaxLines lines; the lines are ingested in batches of batch_size *)
(* in file order, each ingest_text running to its end before the next     *)
(* starts, as the coroutines of a batch do on the event loop.  The         *)
(* pipeline was or was not given its graph manager.                        *)
(***************************************************************************)
MaxLines == 2
BatchSizes == {1, 2}

BlankLine == <<" ", "\n">>
LineA == <<"a", "b", "\n">>
LineB == <<" ", "b", "a", "\n">>
FilePath == "data.txt"

RECURSIVE FileContents(_)
FileContents(n) ==
    IF n = 0 THEN {<<>>}
    ELSE FileContents(n - 1) \cup
         {Append(l, line) : l \in FileContents(n - 1), line \in {BlankLine, LineA, LineB}}

\* What the generation service answers for a line: it fails, or names one triple.
FileResponses ==
    {r \in PipelineResponses : r.kind = "raises" \/ Len(r.triples.items) = 1}

RECURSIVE clean(_)
\* lines = [line.strip() for line in lines if line.strip()]
clean(lines) ==
    IF lines = <<>> THEN <<>>
    ELSE IF strip(Head(lines)) # <<>> THEN <<strip(Head(lines))>> \o clean(Tail(lines))
    ELSE clean(Tail(lines))

\* open(...) or readlines() raised and the failure is left out of the result.
read_failure_ignored(result) == result

\* except Exception: result.success = False; result.errors.append("Failed to read file: ...")
read_failure(result) ==
    [result EXCEPT !.success = FALSE, !.errors = Append(@, "Failed to read file")]

\* What gather answers for a task: the exception that left it, or its result.
BatchResult(tk) ==
    [exception |-> tk.pc = "raised", result |-> tk.result]

ConstructorError == "GraphDatabaseManager() raised"

\* The counters and errors of a returned result added to the aggregate.
Added(result, r) ==
    [result EXCEPT !.nodes_created = @ + r.nodes_created,
                   !.relationships_created = @ + r.relationships_created,
                   !.documents_added = @ + r.documents_added,
                   !.errors = @ \o r.errors]

\* The aggregation step that passes over an exception without a word.
aggregate_silent(result, batch_result) ==
    IF batch_result.exception THEN result
    ELSE Added(result, batch_result.result)

\* The aggregation step with the outcome of the line folded into success.
aggregate_folding(result, batch_result) ==
    IF batch_result.exception
    THEN [result EXCEPT !.errors = Append(@, ConstructorError), !.success = FALSE]
    ELSE [Added(result, batch_result.result)
            EXCEPT !.success = @ /\ batch_result.result.success]

\* if isinstance(batch_result, Exception): result.errors.append(str(batch_result))
\* elif isinstance(batch_result, IngestionResult): add the counters, extend the errors
aggregate(result, batch_result) ==
    IF batch_result.exception THEN [result EXCEPT !.errors = Append(@, ConstructorError)]
    ELSE Added(result, batch_result.result)

RECURSIVE Aggregated(_, _)
\* for batch_result in batch_results: ...
Aggregated(result, batch_results) ==
    IF batch_results = <<>> THEN result
    ELSE Aggregated(aggregate(result, Head(batch_results)), Tail(batch_results))

\* What the lines ingested so far add up to, line by line.
Tally(sums, tk) ==
    IF tk.pc = "raised"
    THEN [sums EXCEPT !.lines = @ + 1, !.exceptions = @ + 1, !.errors = @ + 1,
                      !.texts = Append(@, tk.text)]
    ELSE [sums EXCEPT !.lines = @ + 1,
                      !.failures = @ + (IF tk.result.success THEN 0 ELSE 1),
                      !.texts = Append(@, tk.text),
                      !.nodes_created = @ + tk.result.nodes_created,
                      !.relationships_created = @ + tk.result.relationships_created,
                      !.documents_added = @ + tk.result.documents_added,
                      !.errors = @ + Len(tk.result.errors)]

InitFile ==
    /\ nodes = {}
    /\ edges = {}
    /\ task = [t \in Tasks |-> IdleTask]
    /\ docs = <<>>
    /\ calls = 0
    /\ last = NoCall
    /\ merged = NoMerges
    /\ injected \in BOOLEAN
    /\ file = NoFile
    /\ vector = NoVector
    /\ NoChain
    /\ NoGraphCalls
    /\ NoTraversal
    /\ NoNormalize
    /\ NoExtract

\* ingest_file up to the first batch: the file is read, or the call returns.
IngestFile ==
    \E readable \in BOOLEAN, lines \in FileContents(MaxLines), batch_size \in BatchSizes :
        LET kept == clean(lines) IN
        /\ file.pc = "idle"
        /\ ~readable => (lines = <<>> /\ batch_size = 1)
        /\ file' = IF ~readable
                   THEN [file EXCEPT !.pc = "done", !.readable = FALSE,
                                     !.result = read_failure(IngestionResult)]
                   ELSE [file EXCEPT !.pc = IF kept = <<>> THEN "done" ELSE "batch",
                                     !.lines = lines, !.kept = kept,
                                     !.batch_size = batch_size]
        /\ UNCHANGED <<nodes, edges, task, docs, calls, last, merged, injected, vector,
                       ops, lastOp, query, rawName, norm, extraction, chainVars>>

\* A batch that runs one line into the next batch: lines[i:i + batch_size + 1].
Batch_overlapping ==
    SubSeq(file.kept, file.i + 1,
           IF file.i + file.batch_size + 1 < Len(file.kept)
           THEN file.i + file.batch_size + 1 ELSE Len(file.kept))

\* The lines of the batch that starts at i.
Batch == SubSeq(file.kept, file.i + 1,
                IF file.i + file.batch_size < Len(file.kept)
                THEN file.i + file.batch_size ELSE Len(file.kept))

\* self.ingest_text(text=line, metadata={"file": ..., "line_number": i + j + 1})
\* for the next line of the batch.
RunTask ==
    /\ file.pc = "batch"
    /\ task[Caller].pc = "idle"
    /\ ingest_text(Caller, Batch[file.j + 1],
                   [file |-> FilePath, line_number |-> file.i + file.j + 1], FileResponses)

\* gather has the outcome of the task; after the last task of the batch the
\* outcomes are added to the result and the next batch starts, or the call returns.
Gather ==
    LET tk == task[Caller]
        batch_results == Append(file.batch_results, BatchResult(tk))
        last_of_batch == file.j + 1 = Len(Batch)
        more == file.i + file.batch_size < Len(file.kept)
    IN /\ file.pc = "batch"
       /\ tk.pc \in {"done", "raised"}
       /\ task' = [task EXCEPT ![Caller] = IdleTask]
       /\ file' = IF last_of_batch
                  THEN [file EXCEPT !.pc = IF more THEN "batch" ELSE "done",
                                    !.i = @ + file.batch_size,
                                    !.j = 0,
                                    !.batch_results = <<>>,
                                    !.result = Aggregated(@, batch_results),
                                    !.sums = Tally(@, tk)]
                  ELSE [file EXCEPT !.j = @ + 1,
                                    !.batch_results = batch_results,
                                    !.sums = Tally(@, tk)]
       /\ UNCHANGED <<nodes, edges, docs, calls, last, merged, injected, vector,
                      ops, lastOp, query, rawName, norm, extraction, chainVars>>

NextFile ==
    \/ IngestFile
    \/ RunTask
    \/ CreateSubject(Caller)
    \/ CreateObject(Caller)
    \/ CreateRelationship(Caller)
    \/ AddToVector(Caller)
    \/ Gather

SpecFile == InitFile /\ [][NextFile]_vars

Occurrences(seq, x) == Cardinality({k \in 1..Len(seq) : seq[k] = x})

\* C12: when ingest_file returns after reading the file, every kept line has been
\* ingested; every line whose ingest_text raised stands as one error string in the
\* result; and the counters and the errors of every other line are in the
\* result, whichever lines of the same or of an earlier batch raised.
C12_LineExceptionRecorded ==
    (file.pc = "done" /\ file.readable) =>
        /\ file.sums.lines = Len(file.kept)
        /\ Occurrences(file.result.errors, ConstructorError) = file.sums.exceptions
        /\ Len(file.result.errors) = file.sums.errors
        /\ file.result.nodes_created = file.sums.nodes_created
        /\ file.result.relationships_created = file.sums.relationships_created
        /\ file.result.documents_added = file.sums.documents_added

\* The first of two lines raised, in a batch of its own; the second line, in the
\* next batch, was ingested with its triple and its document.
C12_Witness ==
    /\ file.pc = "done"
    /\ file.batch_size = 1
    /\ Len(file.kept) = 2
    /\ file.result.errors = <<ConstructorError>>
    /\ file.result.nodes_created = 2
    /\ file.result.relationships_created = 1
    /\ file.result.documents_added = 1

\* C13: when the file cannot be opened or read, ingest_file returns success =
\* false with one error entry and all counters zero, having made no ingest_text
\* call (so no extractor call) and no graph-store or vector-store call.
C13_UnreadableFileIsFatal ==
    (file.pc = "done" /\ ~file.readable) =>
        /\ ~file.result.success
        /\ Len(file.result.errors) = 1
        /\ file.result.nodes_created = 0
        /\ file.result.relationships_created = 0
        /\ file.result.documents_added = 0
        /\ calls = 0
        /\ \A t \in Tasks : task[t] = IdleTask
        /\ nodes = {} /\ edges = {} /\ docs = <<>> /\ merged = NoMerges

\* ingest_file has returned from a file it could not read.
C13_Witness ==
    /\ file.pc = "done"
    /\ ~file.readable
    /\ file.result.errors = <<"Failed to read file">>

\* C14: every document ingest_file has stored carries, as line_number, the 1-based
\* number of a line of the source file whose text (stripped) is the document's.
C14_LineNumberIsOriginal ==
    \A k \in 1..Len(docs) :
        /\ docs[k].metadata.line_number \in 1..Len(file.lines)
        /\ strip(file.lines[docs[k].metadata.line_number]) = docs[k].text

\* ingest_text constructed its manager, merged a triple and returned, the manager
\* closed once.
C27_Witness ==
    /\ ~injected
    /\ task[Caller].pc = "done"
    /\ task[Caller].constructed
    /\ task[Caller].closes = 1
    /\ task[Caller].result.relationships_created = 1

\* An injected manager was used for a triple and not closed.
C27_WitnessInjected ==
    /\ injected
    /\ task[Caller].pc = "done"
    /\ task[Caller].result.relationships_created = 1
    /\ task[Caller].closes = 0

\* C23: while a batch of two or more tasks runs, no step changes the collection
\* cache of the vector manager the tasks share.
C23_NoSharedStateModified ==
    [][(file.pc = "batch" /\ Len(Batch) >= 2) =>
           vector'.collections = vector.collections]_vars

\* C29: ingest_file returns success = true whenever the file could be read,
\* whatever the success flags of the per-line results and however many lines
\* raised.
C29_SuccessWhenReadable ==
    (file.pc = "done" /\ file.readable) => file.result.success

\* A file of two lines was read; one ingest_text raised, the other returned
\* success = false.
C29_Witness ==
    /\ file.pc = "done"
    /\ file.readable
    /\ file.sums.exceptions = 1
    /\ file.sums.failures = 1
    /\ file.result.success

Text(v) == [str |-> TRUE, v |-> v]
NotAString == [str |-> FALSE, v |-> <<>>]

\* The positions of a token in a string.
Positions(s, token) == {k \in 1..Len(s) : s[k] = token}

Min(S) == CHOOSE k \in S : \A l \in S : k <= l

\* re.search(open + r"(.*?)" + close, s, re.DOTALL): the leftmost opening tag with
\* a closing tag after it, and lazily the nearest such closing tag; group(1).
search(s, open, close) ==
    LET opens == {o \in Positions(s, open) : \E c \in Positions(s, close) : c > o} IN
    IF opens = {} THEN [match |-> FALSE, group |-> <<>>]
    ELSE LET o == Min(opens)
             c == Min({k \in Positions(s, close) : k > o})
         IN [match |-> TRUE, group |-> SubSeq(s, o + 1, c - 1)]

RECURSIVE split(_, _)
\* re.split(sep, s): the pieces of s between the occurrences of sep.
split(s, sep) ==
    IF Positions(s, sep) = {} THEN <<s>>
    ELSE LET k == Min(Positions(s, sep)) IN
         <<SubSeq(s, 1, k - 1)>> \o split(SubSeq(s, k + 1, Len(s)), sep)

\* The parse that reads the sections one after the other: reasoning is looked for
\* after the entities section, the answer after the reasoning section.
sections_in_order(s) ==
    LET entities_match == search(s, "<entities>", "</entities>")
        rest1 == IF entities_match.match
                 THEN SubSeq(s, Min(Positions(s, "</entities>")) + 1, Len(s)) ELSE s
        reasoning_match == search(rest1, "<reasoning>", "</reasoning>")
        rest2 == IF reasoning_match.match
                 THEN SubSeq(rest1, Min(Positions(rest1, "</reasoning>")) + 1, Len(rest1))
                 ELSE rest1
        answer_match == search(rest2, "<answer>", "</answer>")
        after_reasoning == split(s, "</reasoning>")
    IN [entities |-> IF entities_match.match THEN strip(entities_match.group) ELSE <<>>,
        reasoning |-> IF reasoning_match.match THEN strip(reasoning_match.group) ELSE <<>>,
        answer |-> IF answer_match.match THEN strip(answer_match.group)
                   ELSE IF Len(after_reasoning) > 1 THEN strip(after_reasoning[2])
                   ELSE s]

\* The try block of parse_from_response on a string.
Sections(s) ==
    LET entities_match == search(s, "<entities>", "</entities>")
        reasoning_match == search(s, "<reasoning>", "</reasoning>")
        answer_match == search(s, "<answer>", "</answer>")
        after_reasoning == split(s, "</reasoning>")
    IN [entities |-> IF entities_match.match THEN strip(entities_match.group) ELSE <<>>,
        reasoning |-> IF reasoning_match.match THEN strip(reasoning_match.group) ELSE <<>>,
        answer |-> IF answer_match.match THEN strip(answer_match.group)
                   ELSE IF Len(after_reasoning) > 1 THEN strip(after_reasoning[2])
                   ELSE s]

\* parse_from_response without its try/except: re.search raises on what is not a string.
parse_unguarded(resp) ==
    IF resp.str
    THEN [raised |-> FALSE, answer |-> Text(Sections(resp.v).answer),
          entities |-> Text(Sections(resp.v).entities),
          reasoning |-> Text(Sections(resp.v).reasoning), raw_response |-> resp]
    ELSE [raised |-> TRUE, answer |-> resp, entities |-> Text(<<>>),
          reasoning |-> Text(<<>>), raw_response |-> resp]

\* ReasoningResponse.parse_from_response: raised tells whether an exception leaves it.
parse_from_response(resp) ==
    IF resp.str
    THEN [raised |-> FALSE, answer |-> Text(Sections(resp.v).answer),
          entities |-> Text(Sections(resp.v).entities),
          reasoning |-> Text(Sections(resp.v).reasoning), raw_response |-> resp]
    ELSE [raised |-> FALSE, answer |-> resp, entities |-> Text(<<>>),
          reasoning |-> Text(<<>>), raw_response |-> resp]

(***************************************************************************)
(* SpecParse: parse_from_response on every response of at most MaxResponse *)
(* tokens and on a value that is not a string.                             *)
(***************************************************************************)
MaxResponse == 4

Tags == {"<entities>", "</entities>", "<reasoning>", "</reasoning>", "<answer>", "</answer>"}
ResponseTokens == Tags \cup {"x", " "}

RECURSIVE ResponsesOf(_)
ResponsesOf(n) ==
    IF n = 0 THEN {<<>>}
    ELSE ResponsesOf(n - 1) \cup
         {Append(s, token) : s \in ResponsesOf(n - 1), token \in ResponseTokens}

InitParse ==
    /\ rawResponse \in {Text(s) : s \in ResponsesOf(MaxResponse)} \cup {NotAString}
    /\ reasoningResponse = NotParsed
    /\ reasoned = NotParsed
    /\ flow = NoFlow
    /\ messages = <<>>
    /\ nodes = {}
    /\ edges = {}
    /\ NoPipeline
    /\ NoGraphCalls
    /\ NoTraversal
    /\ NoNormalize
    /\ NoExtract

ParseFromResponse ==
    /\ ~reasoningResponse.done
    /\ reasoningResponse' = [done |-> TRUE, result |-> parse_from_response(rawResponse)]
    /\ UNCHANGED <<nodes, edges, ops, lastOp, query, rawName, norm, extraction, pipeVars,
                   rawResponse, reasoned, flow, messages>>

NextParse == ParseFromResponse

SpecParse == InitParse /\ [][NextParse]_vars

HasTag(s) == \E k \in 1..Len(s) : s[k] \in Tags

\* C15: parse_from_response never raises and always sets raw_response to its
\* input; for a response with none of the six delimiter tags (and for what is not
\* a string) the answer is the whole response, untrimmed, and entities and
\* reasoning are empty.
C15_ParseNeverRaises ==
    reasoningResponse.done =>
        /\ ~reasoningResponse.result.raised
        /\ reasoningResponse.result.raw_response = rawResponse
        /\ ~HasTag(rawResponse.v) =>
              /\ reasoningResponse.result.answer = rawResponse
              /\ reasoningResponse.result.entities = Text(<<>>)
              /\ reasoningResponse.result.reasoning = Text(<<>>)

\* A response without tags that starts with a space has been parsed.
C15_Witness ==
    /\ reasoningResponse.done
    /\ rawResponse = Text(<<" ", "x", " ", "x">>)
    /\ reasoningResponse.result.answer = Text(<<" ", "x", " ", "x">>)

\* An opening tag with its closing tag somewhere after it.
PairPresent(s, open, close) ==
    \E o \in Positions(s, open), c \in Positions(s, close) : o < c

\* C16: for a response with no complete <answer>...</answer> pair that holds the
\* closing </reasoning> delimiter, the answer is everything that follows that
\* delimiter, trimmed, up to the end of the response.
C16_AnswerAfterReasoning ==
    (/\ reasoningResponse.done
     /\ rawResponse.str
     /\ ~PairPresent(rawResponse.v, "<answer>", "</answer>")
     /\ Positions(rawResponse.v, "</reasoning>") # {}) =>
        reasoningResponse.result.answer =
            Text(strip(SubSeq(rawResponse.v, Min(Positions(rawResponse.v, "</reasoning>")) + 1,
                              Len(rawResponse.v))))

\* The section is the trimmed text between the first opening tag and the first
\* closing tag after it.
Extracted(s, open, close, section) ==
    \E o \in Positions(s, open), c \in Positions(s, close) :
        /\ o < c
        /\ \A k \in Positions(s, open) : o <= k
        /\ \A k \in Positions(s, close) : k > o => c <= k
        /\ section = Text(strip(SubSeq(s, o + 1, c - 1)))

\* C17: each section whose delimiter pair is present is the trimmed text between
\* its opening and its closing tag, whatever the other tags of the response are.
C17_SectionsIndependent ==
    (reasoningResponse.done /\ rawResponse.str) =>
        /\ PairPresent(rawResponse.v, "<entities>", "</entities>") =>
              Extracted(rawResponse.v, "<entities>", "</entities>",
                        reasoningResponse.result.entities)
        /\ PairPresent(rawResponse.v, "<reasoning>", "</reasoning>") =>
              Extracted(rawResponse.v, "<reasoning>", "</reasoning>",
                        reasoningResponse.result.reasoning)
        /\ PairPresent(rawResponse.v, "<answer>", "</answer>") =>
              Extracted(rawResponse.v, "<answer>", "</answer>",
                        reasoningResponse.result.answer)

\* The answer pair stands before a complete entities pair, and both are read.
C17_Witness ==
    /\ reasoningResponse.done
    /\ rawResponse = Text(<<"<answer>", "</answer>", "<entities>", "</entities>">>)
    /\ reasoningResponse.result.answer = Text(<<>>)
    /\ reasoningResponse.result.entities = Text(<<>>)

(***************************************************************************)
(* ReasoningChain.reason.  The text-generation call raises with a message  *)
(* or returns a response.                                                  *)
(***************************************************************************)
Raises(message) == [raises |-> TRUE, message |-> message, response |-> Text(<<>>)]
Returns(resp) == [raises |-> FALSE, message |-> "", response |-> resp]

ErrorPrefix == "I encountered an error while reasoning: "

\* ReasoningResponse(answer=..., raw_response=...): entities and reasoning default to "".
ReasoningResponse(answer, raw_response) ==
    [raised |-> FALSE, answer |-> answer, entities |-> Text(<<>>),
     reasoning |-> Text(<<>>), raw_response |-> raw_response]

\* reason without its try/except: the exception of self._llm.invoke leaves the call.
reason_unguarded(llm, use_chain_of_thought) ==
    IF llm.raises
    THEN [ReasoningResponse(Text(<<>>), Text(<<>>)) EXCEPT !.raised = TRUE]
    ELSE IF use_chain_of_thought THEN parse_from_response(llm.response)
    ELSE ReasoningResponse(llm.response, llm.response)

\* ReasoningChain.reason from self._llm.invoke(prompt) on.
reason(llm, use_chain_of_thought) ==
    IF llm.raises
    THEN ReasoningResponse(Text(<<ErrorPrefix, llm.message>>), Text(<<llm.message>>))
    ELSE IF use_chain_of_thought THEN parse_from_response(llm.response)
    ELSE ReasoningResponse(llm.response, llm.response)

\* What self._llm.invoke does in reason.
LlmOutcomes ==
    {Raises(m) : m \in {"LLM unavailable", "timed out"}}
    \cup {Returns(Text(s)) : s \in ResponsesOf(MaxResponse - 1)}

(***************************************************************************)
(* SpecReason: one reason call, with or without chain of thought.          *)
(***************************************************************************)
InitReason ==
    /\ reasoned = NotParsed
    /\ rawResponse = Text(<<>>)
    /\ reasoningResponse = NotParsed
    /\ flow = NoFlow
    /\ messages = <<>>
    /\ nodes = {}
    /\ edges = {}
    /\ NoPipeline
    /\ NoGraphCalls
    /\ NoTraversal
    /\ NoNormalize
    /\ NoExtract

Reason ==
    \E llm \in LlmOutcomes, use_chain_of_thought \in BOOLEAN :
        /\ ~reasoned.done
        /\ reasoned' = [done |-> TRUE, llm |-> llm,
                        use_chain_of_thought |-> use_chain_of_thought,
                        result |-> reason(llm, use_chain_of_thought)]
        /\ UNCHANGED <<nodes, edges, ops, lastOp, query, rawName, norm, extraction, pipeVars,
                       rawResponse, reasoningResponse, flow, messages>>

NextReason == Reason

SpecReason == InitReason /\ [][NextReason]_vars

\* C19: when the text-generation call raises inside reason, with or without
\* chain of thought, reason does not raise: it returns a ReasoningResponse whose
\* answer contains the error message and whose entities and reasoning are empty.
C19_ReasonReturnsErrorAnswer ==
    (reasoned.done /\ reasoned.llm.raises) =>
        /\ ~reasoned.result.raised
        /\ \E k \in 1..Len(reasoned.result.answer.v) :
              reasoned.result.answer.v[k] = reasoned.llm.message
        /\ reasoned.result.entities = Text(<<>>)
        /\ reasoned.result.reasoning = Text(<<>>)

\* The generation call raised in a reason call without chain of thought.
C19_Witness ==
    /\ reasoned.done
    /\ reasoned.llm = Raises("LLM unavailable")
    /\ ~reasoned.use_chain_of_thought
    /\ reasoned.result.answer = Text(<<ErrorPrefix, "LLM unavailable">>)

(***************************************************************************)
(* The query flow of main() (src/app/main.py) for one question.  The       *)
(* hybrid retriever is not among the sources: retrieve follows section 4.5 *)
(* of the specification.  A graph failure inside retrieve either degrades  *)
(* to vector-only with a warning event, as 4.5 says, or raises, which is   *)
(* what the handler of main() provides for; a vector failure raises.       *)
(***************************************************************************)
MaxQuestions == 2

Prompt == <<"q">>
Chunk == <<"c">>
PathString == <<"a", "-", "b">>

RetrievalResult(q, entities, vector_chunks, graph_paths) ==
    [query |-> q, entities |-> entities, vector_chunks |-> vector_chunks,
     graph_paths |-> graph_paths,
     graph_context |-> IF graph_paths = <<>> THEN <<>> ELSE graph_paths[1]]

NoResult == RetrievalResult(<<>>, <<>>, <<>>, <<>>)

\* What the question finds in the graph: the entities extracted from it and the
\* paths that start from them (no entity, no path).
Found ==
    {[entities |-> <<>>, paths |-> <<>>],
     [entities |-> <<"a", "b">>, paths |-> <<>>],
     [entities |-> <<"a", "b">>, paths |-> <<PathString>>]}

\* What the stores and the retriever are like during one question.
Dependencies ==
    [graph_up : BOOLEAN, vector_up : BOOLEAN, chunks : {<<>>, <<Chunk>>},
     found : Found, on_graph_failure : {"degrade", "raise"}]

\* HybridRetriever.retrieve(query, include_graph)
retrieve(q, include_graph, deps) ==
    IF ~deps.vector_up
    THEN [raised |-> TRUE, warned |-> FALSE, result |-> NoResult]
    ELSE IF include_graph /\ ~deps.graph_up
    THEN IF deps.on_graph_failure = "raise"
         THEN [raised |-> TRUE, warned |-> FALSE, result |-> NoResult]
         ELSE [raised |-> FALSE, warned |-> TRUE,
               result |-> RetrievalResult(q, deps.found.entities, deps.chunks, <<>>)]
    ELSE [raised |-> FALSE, warned |-> FALSE,
          result |-> RetrievalResult(q, deps.found.entities, deps.chunks,
                                     IF include_graph THEN deps.found.paths ELSE <<>>)]

\* retriever.retrieve without the try/except of main(): its exception leaves main().
Retrieved_unguarded(q, use_graph, deps) ==
    LET first == retrieve(q, use_graph, deps)
    IN [raised |-> first.raised, warned |-> first.warned, shown |-> <<>>,
        result |-> first.result]

\* The try/except around retriever.retrieve in main(): on an exception a warning
\* is shown and retrieve is called again with include_graph=False.
Retrieved(q, use_graph, deps) ==
    LET first == retrieve(q, use_graph, deps)
        second == retrieve(q, FALSE, deps)
    IN IF ~first.raised
       THEN [raised |-> FALSE, warned |-> first.warned, shown |-> <<>>,
             result |-> first.result]
       ELSE [raised |-> second.raised, warned |-> second.warned,
             shown |-> <<<<"warning", <<"Graph retrieval failed, using vector-only">>>>>>,
             result |-> second.result]

\* What the generation service does for the question.
QueryLlm ==
    {Raises("LLM unavailable"),
     Returns(Text(<<"x">>)),
     Returns(Text(<<"<reasoning>", "x", "</reasoning>", "<answer>", "x", "</answer>">>))}

Questions == Cardinality({k \in 1..Len(messages) : messages[k].role = "user"})

\* get_retriever / get_reasoning_chain under st.cache_resource: the constructor runs
\* at the first call only (None when it raises), and what the function returned
\* then, None included, is what every later call returns.
Cached(cache, constructible) ==
    IF cache = "unset" THEN (IF constructible THEN "created" ELSE "none") ELSE cache

\* The record of one run of main() with a question, as it stands after line 298.
Asked(retriever, chain, use_graph, show_reasoning, constructible) ==
    LET available == retriever # "none" /\ chain # "none"
    IN [pc |-> IF available THEN "retrieve" ELSE "done",
        retriever |-> retriever, chain |-> chain, constructible |-> constructible,
        use_graph |-> use_graph, show_reasoning |-> show_reasoning,
        deps |-> CHOOSE d \in Dependencies : TRUE, llm |-> Raises(""),
        raised |-> FALSE, retrieved |-> FALSE, warned |-> FALSE, result |-> NoResult,
        synthesis |-> "none", response |-> ReasoningResponse(Text(<<>>), Text(<<>>)),
        shown |-> <<<<"markdown", Prompt>>>>
                  \o (IF available THEN <<>>
                      ELSE <<<<"error",
                              <<"System components not available. Please check connections.">>>>>>)]

InitQuery ==
    /\ nodes = {}
    /\ edges = {}
    /\ NoGraphCalls
    /\ NoTraversal
    /\ NoNormalize
    /\ NoExtract
    /\ NoPipeline
    /\ rawResponse = Text(<<>>)
    /\ reasoningResponse = NotParsed
    /\ reasoned = NotParsed
    /\ flow = NoFlow
    /\ messages = <<>>

\* main(), lines 284 to 298: the question joins the history, the components are
\* fetched, and the run ends with st.error when one of them is None.
Ask ==
    \E use_graph \in BOOLEAN, show_reasoning \in BOOLEAN,
       constructible \in [retriever : BOOLEAN, chain : BOOLEAN] :
        /\ flow.pc \in {"idle", "done"}
        /\ Questions < MaxQuestions
        /\ flow' = Asked(Cached(flow.retriever, constructible.retriever),
                         Cached(flow.chain, constructible.chain),
                         use_graph, show_reasoning, constructible)
        /\ messages' = Append(messages, [role |-> "user", content |-> Prompt, paths |-> <<>>])
        /\ UNCHANGED <<nodes, edges, ops, lastOp, query, rawName, norm, extraction, pipeVars,
                       rawResponse, reasoningResponse, reasoned>>

\* main(), lines 300 to 313: retrieval, its fallback and the rendering of what it
\* found.  An exception of the second retrieve leaves main().
Retrieve ==
    \E deps \in Dependencies :
        LET got == Retrieved(Prompt, flow.use_graph, deps)
            result == got.result
            rendered ==
                (IF result.entities # <<>> /\ flow.show_reasoning
                 THEN <<<<"entities", result.entities>>>> ELSE <<>>)
                \o (IF flow.show_reasoning
                       /\ (result.graph_paths # <<>> \/ result.graph_context # <<>>)
                    THEN <<<<"paths", result.graph_context>>>> ELSE <<>>)
        IN /\ flow.pc = "retrieve"
           /\ flow' = [flow EXCEPT !.pc = IF got.raised THEN "done" ELSE "reason",
                                   !.deps = deps,
                                   !.raised = got.raised,
                                   !.retrieved = ~got.raised,
                                   !.warned = got.warned,
                                   !.result = result,
                                   !.shown = @ \o got.shown
                                             \o (IF got.raised THEN <<>> ELSE rendered)]
           /\ UNCHANGED <<nodes, edges, ops, lastOp, query, rawName, norm, extraction, pipeVars,
                          rawResponse, reasoningResponse, reasoned, messages>>

\* main(), lines 315 to 333: chain.reason, the answer on the page and in the history.
Answer ==
    \E llm \in QueryLlm :
        LET response == reason(llm, TRUE)
            trace == IF flow.show_reasoning /\ response.reasoning.v # <<>>
                     THEN <<<<"trace", response.reasoning.v>>>> ELSE <<>>
        IN /\ flow.pc = "reason"
           /\ flow' = [flow EXCEPT !.pc = "done",
                                   !.llm = llm,
                                   !.synthesis = IF llm.raises THEN "failed" ELSE "succeeded",
                                   !.response = response,
                                   !.shown = @ \o <<<<"markdown", <<"### Answer">>>>,
                                                    <<"markdown", response.answer.v>>>>
                                             \o trace]
           /\ messages' = Append(messages, [role |-> "assistant",
                                            content |-> response.answer.v,
                                            paths |-> flow.result.graph_context])
           /\ UNCHANGED <<nodes, edges, ops, lastOp, query, rawName, norm, extraction, pipeVars,
                          rawResponse, reasoningResponse, reasoned>>

NextQuery == Ask \/ Retrieve \/ Answer

SpecQuery == InitQuery /\ [][NextQuery]_vars

\* The run got as far as retrieval with graph retrieval enabled, the graph was
\* unreachable and the vector store answered.
GraphDown ==
    /\ flow.pc \in {"reason", "done"}
    /\ flow.retrieved \/ flow.raised
    /\ flow.use_graph
    /\ ~flow.deps.graph_up
    /\ flow.deps.vector_up

\* A RetrievalResult without graph paths and with vector chunks, no exception
\* out of main(), and a warning: the retriever's event or st.warning.
Degraded ==
    /\ flow.retrieved
    /\ ~flow.raised
    /\ flow.result.graph_paths = <<>>
    /\ flow.result.vector_chunks # <<>>
    /\ flow.warned \/ \E k \in 1..Len(flow.shown) : flow.shown[k][1] = "warning"

AnswerShown ==
    \E k \in 1..Len(flow.shown) : flow.shown[k] = <<"markdown", <<"### Answer">>>>

\* The history's last entry is the assistant's answer to the question.
AnswerStored ==
    /\ messages # <<>>
    /\ messages[Len(messages)].role = "assistant"

\* C20: when the final synthesis call fails, the run of the query flow neither
\* shows nor stores its outcome as an ordinary answer.
C20_FailedSynthesisIsTerminal ==
    (flow.pc = "done" /\ flow.synthesis = "failed") => (~AnswerShown /\ ~AnswerStored)

\* The run was stopped by st.error and did nothing else: no retrieval, no
\* synthesis, nothing shown but the question and the error, nothing stored but
\* the question.
Blocked ==
    /\ flow.pc = "done"
    /\ Len(flow.shown) = 2
    /\ flow.shown[2][1] = "error"
    /\ ~flow.retrieved
    /\ ~flow.raised
    /\ flow.synthesis = "none"
    /\ messages[Len(messages)].role = "user"

\* C22: a request whose retriever or chain cannot be constructed is answered with
\* "System components not available" and nothing else, and a request made when
\* both can be constructed is not blocked: it goes on to retrieval.
C22_OnlyThatRequestBlocked ==
    /\ (flow.pc = "done" /\ (flow.retriever = "none" \/ flow.chain = "none")) => Blocked
    /\ (flow.pc # "idle" /\ flow.constructible.retriever /\ flow.constructible.chain)
        => (flow.retriever = "created" /\ flow.chain = "created" /\ ~Blocked)

(***************************************************************************)
(* SpecVector: get_collection and delete_collection calls, raising or not, *)
(* on the names of CollectionNames.                                        *)
(***************************************************************************)
InitVector ==
    /\ nodes = {}
    /\ edges = {}
    /\ NoPipeline
    /\ NoChain
    /\ NoGraphCalls
    /\ NoTraversal
    /\ NoNormalize
    /\ NoExtract

GetCollection ==
    \E name \in CollectionNames, raises \in BOOLEAN :
        /\ vector.ops < MaxVectorOps
        /\ raises => vector.collections[name] = 0
        /\ vector' = [get_collection(vector, name, raises).v EXCEPT !.ops = @ + 1]
        /\ UNCHANGED <<nodes, edges, ops, lastOp, query, rawName, norm, extraction,
                       task, docs, calls, last, merged, injected, file, chainVars>>

DeleteCollection ==
    \E name \in CollectionNames, raises \in BOOLEAN :
        /\ vector.ops < MaxVectorOps
        /\ vector' = [delete_collection(vector, name, raises) EXCEPT !.ops = @ + 1]
        /\ UNCHANGED <<nodes, edges, ops, lastOp, query, rawName, norm, extraction,
                       task, docs, calls, last, merged, injected, file, chainVars>>

NextVector == GetCollection \/ DeleteCollection

SpecVector == InitVector /\ [][NextVector]_vars

\* The cache after the last call: a handle it holds is the client's collection of
\* that name; a deletion that returned left no handle for the name and one that
\* raised left the cache as it was; and a get_collection that found no handle
\* asked the client and holds what it answered.
Coherent ==
    /\ \A n \in CollectionNames :
           vector.collections[n] # 0 => vector.collections[n] = vector.client[n]
    /\ (vector.last.op = "delete" /\ ~vector.last.raised) =>
           vector.collections[vector.last.name] = 0
    /\ (vector.last.op = "delete" /\ vector.last.raised) =>
           vector.collections = vector.last.before
    /\ (vector.last.op = "get" /\ ~vector.last.raised) =>
           /\ vector.collections[vector.last.name] # 0
           /\ vector.last.fetched <=> vector.last.before[vector.last.name] = 0

\* C30 as stated: the cache is coherent and get_or_create_collection is called at
\* most once per name between deletions.
C30_CacheCoherent ==
    /\ Coherent
    /\ \A n \in CollectionNames : vector.called[n] <= 1

\* C30: the cache is coherent and get_or_create_collection returns at most once
\* per name between deletions.
C30_CacheCoherentOneFetch ==
    /\ Coherent
    /\ \A n \in CollectionNames : vector.fetched[n] <= 1

\* A collection was fetched, deleted and fetched again: the second handle is that
\* of a new collection.
C30_Witness ==
    /\ vector.ops = 3
    /\ vector.last.op = "get"
    /\ vector.last.fetched
    /\ vector.collections[CollectionName] = 2
    /\ vector.fetched[CollectionName] = 1

====
